---- MODULE Spec2Model ----
(***************************************************************************)
(* SonicWave Visualizer: the shared audio engine (src/audioEngine.ts), the *)
(* main visualizer component (WaveformVisualizer, src/unnamed/part_002)    *)
(* and the auxiliary monitor (RawMonitor, src/unnamed/part_003), together  *)
(* with the parts of the platform they drive: the Web Audio graph and the  *)
(* animation-frame queue.                                                  *)
(*                                                                         *)
(* Objects are numbered in order of construction: context c is the c-th    *)
(* AudioContext, tap t the t-th source node, analyser a the a-th           *)
(* AnalyserNode, buffer b the b-th Uint8Array.  0 stands for null.         *)
(***************************************************************************)
EXTENDS Integers, Sequences, FiniteSets, TLC

\* ------------------------------------------------------------------ bounds

\* Analysers constructed over a run (every session setup constructs one).
MaxAnalysers == 2
\* Contexts and source nodes constructed over a run of the engine on its own.
MaxContexts == 3
MaxTaps == 3
\* Animation-frame callbacks pending at once where a cancelled one may fire.
MaxPending == 3
\* Bins of a sample buffer where the geometry of a frame is computed.
Bins == 3

\* ------------------------------------------------------------- value sets

NULL == "null"
Elements == {"e1", "e2"}
Streams == {"s1"}
Sources == Elements \cup Streams
\* elements that other code may have tapped before the program starts
ForeignCandidates == {"e2"}

Modes == {"waveform", "bars", "radial", "particles"}
\* the modes the host switches between in the runs explored
RunModes == {"waveform", "bars"}
Palettes == {"indigo", "emerald"}
\* sensitivity in tenths (the slider moves in steps of 0.1)
Sensitivities == {10, 25}

\* What the platform answers during one handler: whether an AudioContext
\* can be constructed and the state it starts in, whether
\* canvas.getContext('2d') yields a context, whether the canvas has a
\* non-empty layout box, whether a video source has a decoded frame, and
\* which call of a draw, if any, throws: the first sample pull or the first
\* draw operation.
Faults == {"none", "pull", "paint"}
Env == [ctxOk : BOOLEAN, ctxStart : {"suspended", "running"}, ok2d : BOOLEAN,
        laidOut : BOOLEAN, videoReady : BOOLEAN, fault : Faults]

VARIABLES
    \* AudioEngine
    context,            \* this.context: 0 or a context
    sourceNodes,        \* this.sourceNodes: source -> tap, 0 where absent
    \* Web Audio platform
    ctxState,           \* state of every context constructed
    resumePending,      \* a context.resume() promise has not settled
    taps,               \* every source node constructed: [src, ctx]
    foreign,            \* media elements tapped by code outside the engine
    tapCalls,           \* calls of createMediaElementSource, per element
    dest,               \* taps connected to ctx.destination
    analysers,          \* every analyser constructed: [ctx, owner, fftSize]
    edges,              \* connections <<tap, analyser>>
    buffers,            \* every Uint8Array constructed: its length
    \* animation frames
    rafQueue,           \* callbacks requested and neither fired nor cancelled
    cancelled,          \* callbacks the last handler cancelled: [who, closure]
    \* WaveformVisualizer
    mounted, props, hasError,
    analyserRef, timeDataRef, freqDataRef, animationFrameRef,
    connCleanup,        \* cleanup returned by the connection effect
    loopCleanup,        \* the rendering loop effect returned a cleanup
    \* RawMonitor
    monMounted, monSource, monAnimationFrameRef,
    monCleanup,         \* cleanup returned by the monitor's effect
    \* what the last handler did, in order: the platform calls it made, the
    \* cleanups it ran, the nodes getOrCreateSourceNode returned to it
    ops,
    \* App
    app,                \* the state of App and the query it was loaded with
    frame               \* the geometry of the last frame drawn from given samples

audioVars == <<context, sourceNodes, ctxState, resumePending, taps, foreign, tapCalls, dest,
          analysers, edges, buffers, rafQueue, cancelled, mounted, props, hasError,
          analyserRef, timeDataRef, freqDataRef, animationFrameRef,
          connCleanup, loopCleanup, monMounted, monSource,
          monAnimationFrameRef, monCleanup, ops>>
vars == <<audioVars, app, frame>>

\* The whole state as one record, threaded through the handlers.
World ==
    [context |-> context, sourceNodes |-> sourceNodes, ctxState |-> ctxState,
     resumePending |-> resumePending, taps |-> taps, foreign |-> foreign,
     tapCalls |-> tapCalls,
     dest |-> dest, analysers |-> analysers, edges |-> edges,
     buffers |-> buffers, rafQueue |-> rafQueue, cancelled |-> {},
     mounted |-> mounted,
     props |-> props, hasError |-> hasError, analyserRef |-> analyserRef,
     timeDataRef |-> timeDataRef, freqDataRef |-> freqDataRef,
     animationFrameRef |-> animationFrameRef, connCleanup |-> connCleanup,
     loopCleanup |-> loopCleanup, monMounted |-> monMounted,
     monSource |-> monSource, monAnimationFrameRef |-> monAnimationFrameRef,
     monCleanup |-> monCleanup, ops |-> <<>>, hasErrorNext |-> hasError,
     escaped |-> FALSE]

Commit(w) ==
    /\ context' = w.context
    /\ sourceNodes' = w.sourceNodes
    /\ ctxState' = w.ctxState
    /\ resumePending' = w.resumePending
    /\ taps' = w.taps
    /\ foreign' = w.foreign
    /\ tapCalls' = w.tapCalls
    /\ dest' = w.dest
    /\ analysers' = w.analysers
    /\ edges' = w.edges
    /\ buffers' = w.buffers
    /\ rafQueue' = w.rafQueue
    /\ cancelled' = w.cancelled
    /\ mounted' = w.mounted
    /\ props' = w.props
    /\ hasError' = w.hasError
    /\ analyserRef' = w.analyserRef
    /\ timeDataRef' = w.timeDataRef
    /\ freqDataRef' = w.freqDataRef
    /\ animationFrameRef' = w.animationFrameRef
    /\ connCleanup' = w.connCleanup
    /\ loopCleanup' = w.loopCleanup
    /\ monMounted' = w.monMounted
    /\ monSource' = w.monSource
    /\ monAnimationFrameRef' = w.monAnimationFrameRef
    /\ monCleanup' = w.monCleanup
    /\ ops' = w.ops
    /\ UNCHANGED <<app, frame>>

\* One platform call: its name, the component making it, and the source,
\* nodes or buffers it names (0 / NULL where it names none).
Op(name, who, src, a, b) == [op |-> name, who |-> who, src |-> src, a |-> a, b |-> b]
Log(w, o) == [w EXCEPT !.ops = Append(@, o)]

\* A handler's outcome: the state it leaves, the value it returns, and
\* whether it threw instead of returning.
Ret(w, v) == [w |-> w, ret |-> v, threw |-> FALSE]
Throw(w) == [w |-> w, ret |-> 0, threw |-> TRUE]

\* The value of a singleton: Pick({F(v) : v \in {e}}) is F(e) with e
\* evaluated once, the way a handler holds a result in a local.
Pick(S) == CHOOSE v \in S : TRUE

\* ---------------------------------------------------------------- numbers

\* A JavaScript number: a finite value n/d in lowest terms with d > 0, an
\* infinity (n its sign), or NaN.  Rounding and the sign of zero are left out.
RECURSIVE Gcd(_, _)
Gcd(a, b) == IF b = 0 THEN a ELSE Gcd(b, a % b)
Abs(n) == IF n < 0 THEN -n ELSE n
Sign(n) == IF n > 0 THEN 1 ELSE IF n < 0 THEN -1 ELSE 0
Fin(n, d) ==
    Pick({[k |-> "fin", n |-> (Sign(d) * n) \div g, d |-> Abs(d) \div g] :
          g \in {IF n = 0 THEN Abs(d) ELSE Gcd(Abs(n), Abs(d))}})
Inf(sign) == [k |-> "inf", n |-> sign, d |-> 1]
NaN == [k |-> "nan", n |-> 0, d |-> 1]
isNaN(x) == x.k = "nan"
isFinite(x) == x.k = "fin"

\* x * y
Mul(x, y) ==
    IF x.k = "nan" \/ y.k = "nan" THEN NaN
    ELSE IF x.k = "inf" \/ y.k = "inf"
    THEN (IF Sign(x.n) * Sign(y.n) = 0 THEN NaN ELSE Inf(Sign(x.n) * Sign(y.n)))
    ELSE Fin(x.n * y.n, x.d * y.d)

\* x + y
Add(x, y) ==
    IF x.k = "nan" \/ y.k = "nan" THEN NaN
    ELSE IF x.k = "inf" /\ y.k = "inf" THEN (IF x.n = y.n THEN x ELSE NaN)
    ELSE IF x.k = "inf" THEN x
    ELSE IF y.k = "inf" THEN y
    ELSE Fin(x.n * y.d + y.n * x.d, x.d * y.d)

\* x - y
Sub(x, y) == Add(x, Mul(Fin(-1, 1), y))

\* x / y
Div(x, y) ==
    IF x.k = "nan" \/ y.k = "nan" THEN NaN
    ELSE IF x.k = "inf" /\ y.k = "inf" THEN NaN
    ELSE IF x.k = "inf" THEN Inf(x.n * (IF y.n < 0 THEN -1 ELSE 1))
    ELSE IF y.k = "inf" THEN Fin(0, 1)
    ELSE IF y.n = 0 THEN (IF x.n = 0 THEN NaN ELSE Inf(Sign(x.n)))
    ELSE Fin(x.n * y.d, x.d * y.n)

\* x < y, x > y (false where either is NaN)
Less(x, y) ==
    /\ x.k # "nan" /\ y.k # "nan"
    /\ IF x.k = "inf" THEN x.n < 0 /\ y # x
       ELSE IF y.k = "inf" THEN y.n > 0
       ELSE x.n * y.d < y.n * x.d
Greater(x, y) == Less(y, x)

\* Math.floor of a finite number, as an integer
Floor(x) == IF x.n >= 0 THEN x.n \div x.d ELSE -((-x.n + x.d - 1) \div x.d)

\* Math.trunc of a finite number, and the remainder x % m of finite
\* numbers (the sign of the dividend)
Trunc(x) == IF x.n >= 0 THEN Floor(x) ELSE -((-x.n) \div x.d)
Rem(x, m) == Sub(x, Mul(m, Fin(Trunc(Div(x, m)), 1)))

\* ---------------------------------------------------------------- doubles

\* Where rounding decides, a JavaScript number is modelled as the IEEE 754
\* double it is: sign s, significand m and exponent e, with value s*m*2^e.
\* The significand is a natural number of up to 53 bits, written as the
\* sequence of its digits in base 2^15, lowest first and without leading
\* zeros (0 is the empty sequence).  Every operation rounds its exact result
\* to the nearest double, ties to even.  The values met here are far from
\* the overflow and underflow thresholds.
Limb == 32768
LimbBits == 15
Precision == 53

RECURSIVE Pow2(_)
Pow2(k) == IF k = 0 THEN 1 ELSE 2 * Pow2(k - 1)

\* naturals of any size
RECURSIVE BTrim(_)
BTrim(a) == IF a # <<>> /\ a[Len(a)] = 0 THEN BTrim(SubSeq(a, 1, Len(a) - 1)) ELSE a
RECURSIVE BOfInt(_)
BOfInt(n) == IF n = 0 THEN <<>> ELSE <<n % Limb>> \o BOfInt(n \div Limb)
BDigit(a, i) == IF i <= Len(a) THEN a[i] ELSE 0

RECURSIVE BCmpFrom(_, _, _)
BCmpFrom(a, b, i) ==
    IF i = 0 THEN 0
    ELSE IF BDigit(a, i) < BDigit(b, i) THEN -1
    ELSE IF BDigit(a, i) > BDigit(b, i) THEN 1
    ELSE BCmpFrom(a, b, i - 1)
BCmp(a, b) == BCmpFrom(a, b, IF Len(a) > Len(b) THEN Len(a) ELSE Len(b))

RECURSIVE BAddFrom(_, _, _, _)
BAddFrom(a, b, i, carry) ==
    IF i > Len(a) /\ i > Len(b)
    THEN (IF carry = 0 THEN <<>> ELSE <<carry>>)
    ELSE <<(BDigit(a, i) + BDigit(b, i) + carry) % Limb>>
             \o BAddFrom(a, b, i + 1, (BDigit(a, i) + BDigit(b, i) + carry) \div Limb)
BAdd(a, b) == BAddFrom(a, b, 1, 0)

\* a - b for a >= b
RECURSIVE BSubFrom(_, _, _, _)
BSubFrom(a, b, i, borrow) ==
    IF i > Len(a)
    THEN <<>>
    ELSE <<(a[i] - BDigit(b, i) - borrow + Limb) % Limb>>
             \o BSubFrom(a, b, i + 1, IF a[i] - BDigit(b, i) - borrow < 0 THEN 1 ELSE 0)
BSub(a, b) == BTrim(BSubFrom(a, b, 1, 0))

\* a * k for 0 <= k < 2^15
RECURSIVE BMulSmallFrom(_, _, _, _)
BMulSmallFrom(a, k, i, carry) ==
    IF i > Len(a)
    THEN (IF carry = 0 THEN <<>> ELSE <<carry>>)
    ELSE <<(a[i] * k + carry) % Limb>>
             \o BMulSmallFrom(a, k, i + 1, (a[i] * k + carry) \div Limb)
BMulSmall(a, k) == BTrim(BMulSmallFrom(a, k, 1, 0))

\* a * Limb^q
BShiftLimbs(a, q) == IF a = <<>> THEN <<>> ELSE [i \in 1..q |-> 0] \o a

RECURSIVE BMulFrom(_, _, _)
BMulFrom(a, b, i) ==
    IF i > Len(b) THEN <<>>
    ELSE BAdd(BShiftLimbs(BMulSmall(a, b[i]), i - 1), BMulFrom(a, b, i + 1))
BMul(a, b) == BMulFrom(a, b, 1)

\* floor(a / k) for 0 < k <= 2^15, from the highest digit down
RECURSIVE BDivSmallFrom(_, _, _, _)
BDivSmallFrom(a, k, i, rem) ==
    IF i = 0 THEN <<>>
    ELSE BDivSmallFrom(a, k, i - 1, (rem * Limb + a[i]) % k)
             \o <<(rem * Limb + a[i]) \div k>>
BDivSmall(a, k) == BTrim(BDivSmallFrom(a, k, Len(a), 0))

\* a * 2^k and floor(a / 2^k)
BShl(a, k) == BShiftLimbs(BMulSmall(a, Pow2(k % LimbBits)), k \div LimbBits)
BShr(a, k) ==
    IF k \div LimbBits >= Len(a) THEN <<>>
    ELSE BDivSmall(SubSeq(a, (k \div LimbBits) + 1, Len(a)), Pow2(k % LimbBits))

\* the number of bits of a
RECURSIVE IntBits(_)
IntBits(n) == IF n = 0 THEN 0 ELSE 1 + IntBits(n \div 2)
BBits(a) == IF a = <<>> THEN 0 ELSE LimbBits * (Len(a) - 1) + IntBits(a[Len(a)])
BOdd(a) == a # <<>> /\ a[1] % 2 = 1

\* The largest digit g with g*d <= n, for lo*d <= n < hi*d
RECURSIVE BDigitSearch(_, _, _, _)
BDigitSearch(n, d, lo, hi) ==
    IF hi - lo <= 1 THEN lo
    ELSE IF BCmp(BMulSmall(d, (lo + hi) \div 2), n) <= 0
    THEN BDigitSearch(n, d, (lo + hi) \div 2, hi)
    ELSE BDigitSearch(n, d, lo, (lo + hi) \div 2)

\* floor(n / d) and the remainder for d > 0 and n < d * Limb^(k+1), one
\* digit of the quotient at a time from digit k down
RECURSIVE BDivFrom(_, _, _)
BDivFrom(n, d, k) ==
    IF k < 0 THEN [q |-> <<>>, r |-> n]
    ELSE Pick({Pick({[q |-> t.q \o <<g>>, r |-> t.r] :
                     t \in {BDivFrom(BSub(n, BMulSmall(BShiftLimbs(d, k), g)),
                                      d, k - 1)}}) :
               g \in {BDigitSearch(n, BShiftLimbs(d, k), 0, Limb)}})
BDivMod(n, d) == Pick({[q |-> BTrim(t.q), r |-> t.r] : t \in {BDivFrom(n, d, Len(n))}})

\* The double nearest to s*m*2^e (ties to even), its significand of
\* exactly 53 bits; zero has the empty significand.
RECURSIVE Round(_, _, _)
Round(s, m, e) ==
    IF m = <<>> THEN [s |-> 1, m |-> <<>>, e |-> 0]
    ELSE IF BBits(m) <= Precision
    THEN [s |-> s, m |-> BShl(m, Precision - BBits(m)), e |-> e - (Precision - BBits(m))]
    ELSE Pick({Pick({Round(s,
                           IF c > 0 \/ (c = 0 /\ BOdd(q)) THEN BAdd(q, <<1>>) ELSE q,
                           e + sh) :
                     c \in {BCmp(BSub(m, BShl(q, sh)), BShl(<<1>>, sh - 1))}}) :
               sh \in {BBits(m) - Precision}, q \in {BShr(m, BBits(m) - Precision)}})

\* an integer as a double
Num(n) == Round(IF n < 0 THEN -1 ELSE 1, BOfInt(IF n < 0 THEN -n ELSE n), 0)

\* The exact sum and product of two doubles, not rounded.
ExactAdd(x, y) ==
    Pick({Pick({IF x.s = y.s THEN [s |-> x.s, m |-> BAdd(a, b), e |-> e]
                ELSE IF BCmp(a, b) >= 0 THEN [s |-> x.s, m |-> BSub(a, b), e |-> e]
                ELSE [s |-> y.s, m |-> BSub(b, a), e |-> e] :
                a \in {BShl(x.m, x.e - e)}, b \in {BShl(y.m, y.e - e)}}) :
          e \in {IF x.m = <<>> THEN y.e ELSE IF y.m = <<>> THEN x.e
                 ELSE IF x.e < y.e THEN x.e ELSE y.e}})
ExactMul(x, y) == [s |-> x.s * y.s, m |-> BMul(x.m, y.m), e |-> x.e + y.e]
Neg(x) == [x EXCEPT !.s = -x.s]
\* the sign of a value: -1, 0 or 1
SignOf(x) == IF x.m = <<>> THEN 0 ELSE x.s
\* x < y, x <= y and x = y as values
Lt(x, y) == SignOf(ExactAdd(x, Neg(y))) < 0
Le(x, y) == SignOf(ExactAdd(x, Neg(y))) <= 0
Eq(x, y) == SignOf(ExactAdd(x, Neg(y))) = 0

\* x + y, x - y, x * y and x / y (y not zero) in double arithmetic
FAdd(x, y) == Pick({Round(z.s, z.m, z.e) : z \in {ExactAdd(x, y)}})
FSub(x, y) == FAdd(x, Neg(y))
FMul(x, y) == Pick({Round(z.s, z.m, z.e) : z \in {ExactMul(x, y)}})
FDiv(x, y) ==
    IF x.m = <<>> THEN Num(0)
    ELSE Pick({Round(x.s * y.s,
                     IF t.r = <<>> THEN t.q ELSE BAdd(BShl(t.q, 1), <<1>>),
                     IF t.r = <<>> THEN x.e - y.e - (Precision + 3)
                     ELSE x.e - y.e - (Precision + 3) - 1) :
               t \in {BDivMod(BShl(x.m, Precision + 3), y.m)}})

\* ---------------------------------------------------------------- strings

\* A string is the sequence of its characters.
Digits == <<"0", "1", "2", "3", "4", "5", "6", "7", "8", "9">>
DigitValue(c) == CHOOSE v \in 0..9 : Digits[v + 1] = c
IsDigit(c) == \E v \in 0..9 : Digits[v + 1] = c

\* n.toString() for an integer n
RECURSIVE toString(_)
toString(n) == IF n < 0 THEN <<"-">> \o toString(-n)
               ELSE IF n < 10 THEN <<Digits[n + 1]>>
               ELSE toString(n \div 10) \o <<Digits[(n % 10) + 1]>>

\* padStart as it would be if it added nothing
padStart_None(str, len, pad) == str

\* str.padStart(len, pad) for a one-character pad
RECURSIVE padStart(_, _, _)
padStart(str, len, pad) == IF Len(str) >= len THEN str
                           ELSE padStart(<<pad>> \o str, len, pad)

\* The first position of str from i on that holds no digit.
RECURSIVE DigitsEnd(_, _)
DigitsEnd(str, i) ==
    IF i <= Len(str) /\ IsDigit(str[i]) THEN DigitsEnd(str, i + 1) ELSE i

\* The value of a string of digits (0 for the empty string).
RECURSIVE DigitsValue(_)
DigitsValue(str) ==
    IF str = <<>> THEN 0
    ELSE 10 * DigitsValue(SubSeq(str, 1, Len(str) - 1)) + DigitValue(str[Len(str)])

RECURSIVE Pow10(_)
Pow10(k) == IF k = 0 THEN 1 ELSE 10 * Pow10(k - 1)

HasPrefix(str, pre) == Len(str) >= Len(pre) /\ SubSeq(str, 1, Len(pre)) = pre

\* The exponent part of a decimal literal that starts at position b of str:
\* e or E, an optional sign and at least one digit; 0 where there is none.
Exponent(str, b) ==
    IF b > Len(str) \/ str[b] \notin {"e", "E"}
    THEN 0
    ELSE Pick({Pick({IF d = c THEN 0
                     ELSE (IF str[b + 1] = "-" THEN -1 ELSE 1)
                              * DigitsValue(SubSeq(str, c, d - 1)) :
                     d \in {DigitsEnd(str, c)}}) :
               c \in {IF b + 1 <= Len(str) /\ str[b + 1] \in {"+", "-"}
                      THEN b + 2 ELSE b + 1}})

\* parseFloat of a string without sign: Infinity, or the longest prefix
\* that is a decimal literal; NaN where there is none.
parseUnsigned(str) ==
    IF HasPrefix(str, <<"I", "n", "f", "i", "n", "i", "t", "y">>)
    THEN Inf(1)
    ELSE Pick({Pick({IF a = 1 /\ b <= a + 1
                     THEN NaN
                     ELSE Pick({IF e >= 0
                                THEN Mul(m, Fin(Pow10(e), 1))
                                ELSE Div(m, Fin(Pow10(-e), 1)) :
                                e \in {Exponent(str, b)},
                                m \in {Fin(DigitsValue(SubSeq(str, 1, a - 1)
                                                           \o SubSeq(str, a + 1, b - 1)),
                                           Pow10(IF b > a THEN b - a - 1 ELSE 0))}}) :
                     b \in {IF a <= Len(str) /\ str[a] = "."
                            THEN DigitsEnd(str, a + 1) ELSE a}}) :
               a \in {DigitsEnd(str, 1)}})

\* parseFloat(str): leading blanks are skipped, a sign is applied
RECURSIVE parseFloat(_)
parseFloat(str) ==
    IF str = <<>> THEN NaN
    ELSE IF str[1] = " " THEN parseFloat(Tail(str))
    ELSE IF str[1] = "-" THEN Mul(Fin(-1, 1), parseUnsigned(Tail(str)))
    ELSE IF str[1] = "+" THEN parseUnsigned(Tail(str))
    ELSE parseUnsigned(str)

\* n.toString() for a number n: the digits of the shortest decimal that
\* names n, laid out as Number::toString lays them out.  n is s x 10^(e - k)
\* for the k digits s; a finite n that comes from parseFloat has such digits.
RECURSIVE DecimalShift(_, _, _)
DecimalShift(n, d, j) ==
    IF (n * Pow10(j)) % d = 0 THEN j ELSE DecimalShift(n, d, j + 1)
RECURSIVE TrailingZeros(_)
TrailingZeros(m) == IF m % 10 = 0 THEN 1 + TrailingZeros(m \div 10) ELSE 0
Zeros(c) == [i \in 1..c |-> "0"]
Layout(digits, e) ==
    IF Len(digits) <= e /\ e <= 21
    THEN digits \o Zeros(e - Len(digits))
    ELSE IF 0 < e /\ e <= 21
    THEN SubSeq(digits, 1, e) \o <<".">> \o SubSeq(digits, e + 1, Len(digits))
    ELSE IF -6 < e /\ e <= 0
    THEN <<"0", ".">> \o Zeros(-e) \o digits
    ELSE (IF Len(digits) = 1 THEN digits
          ELSE <<digits[1], ".">> \o SubSeq(digits, 2, Len(digits)))
         \o <<"e", IF e - 1 < 0 THEN "-" ELSE "+">> \o toString(Abs(e - 1))
RECURSIVE NumberToString(_)
NumberToString(x) ==
    IF x.k = "nan" THEN <<"N", "a", "N">>
    ELSE IF x.k = "inf"
    THEN (IF x.n < 0 THEN <<"-">> ELSE <<>>)
         \o <<"I", "n", "f", "i", "n", "i", "t", "y">>
    ELSE IF x.n = 0 THEN <<"0">>
    ELSE IF x.n < 0 THEN <<"-">> \o NumberToString(Fin(-x.n, x.d))
    ELSE Pick({Pick({Layout(toString(m \div Pow10(z)),
                            Len(toString(m \div Pow10(z))) + z - j) :
                     z \in {TrailingZeros(m)}}) :
               j \in {DecimalShift(x.n, x.d, 0)},
               m \in {(x.n * Pow10(DecimalShift(x.n, x.d, 0))) \div x.d}})

\* The printable ASCII characters, from the space (code 32) to the tilde;
\* the double quote, the backslash and the backtick are written by their
\* names.
Ascii ==
    <<" ", "!", "QUOTE", "#", "$", "%", "&", "'", "(", ")", "*", "+", ",",
      "-", ".", "/", "0", "1", "2", "3", "4", "5", "6", "7", "8", "9", ":",
      ";", "<", "=", ">", "?", "@", "A", "B", "C", "D", "E", "F", "G", "H",
      "I", "J", "K", "L", "M", "N", "O", "P", "Q", "R", "S", "T", "U", "V",
      "W", "X", "Y", "Z", "[", "BACKSLASH", "]", "^", "_", "BACKTICK", "a", "b", "c",
      "d", "e", "f", "g", "h", "i", "j", "k", "l", "m", "n", "o", "p", "q",
      "r", "s", "t", "u", "v", "w", "x", "y", "z", "{", "|", "}", "~">>
CharCode(c) == 31 + (CHOOSE i \in 1..Len(Ascii) : Ascii[i] = c)
HexDigits == <<"0", "1", "2", "3", "4", "5", "6", "7", "8", "9",
               "A", "B", "C", "D", "E", "F">>
LowerHex == <<"a", "b", "c", "d", "e", "f">>
IsHex(c) == (\E i \in 1..16 : HexDigits[i] = c) \/ (\E i \in 1..6 : LowerHex[i] = c)
HexValue(c) == IF \E i \in 1..16 : HexDigits[i] = c
               THEN (CHOOSE i \in 1..16 : HexDigits[i] = c) - 1
               ELSE (CHOOSE i \in 1..6 : LowerHex[i] = c) + 9

\* The characters the serializer of URLSearchParams writes as they are:
\* letters, digits and * - . _
Unreserved(c) ==
    \/ c \in {"*", "-", ".", "_"}
    \/ CharCode(c) \in 48..57 \/ CharCode(c) \in 65..90 \/ CharCode(c) \in 97..122

\* encode as it would be if it wrote every character as it is
RECURSIVE encode_None(_)
encode_None(str) == str

\* The form-urlencoded serialization of a name or a value: a space becomes
\* +, every other character that is not written as it is becomes %XX.
RECURSIVE encode(_)
encode(str) ==
    IF str = <<>> THEN <<>>
    ELSE (IF str[1] = " " THEN <<"+">>
          ELSE IF Unreserved(str[1]) THEN <<str[1]>>
          ELSE <<"%", HexDigits[(CharCode(str[1]) \div 16) + 1],
                      HexDigits[(CharCode(str[1]) % 16) + 1]>>)
         \o encode(Tail(str))

\* The decoding the parser of URLSearchParams applies to a name or a value:
\* + becomes a space and %XX the character with that code; a % that is
\* followed by no two hexadecimal digits stays.  (Codes outside printable
\* ASCII, the bytes of other characters, stay as written.)
RECURSIVE decode(_)
decode(str) ==
    IF str = <<>> THEN <<>>
    ELSE IF str[1] = "+" THEN <<" ">> \o decode(Tail(str))
    ELSE IF /\ str[1] = "%" /\ Len(str) >= 3 /\ IsHex(str[2]) /\ IsHex(str[3])
            /\ 16 * HexValue(str[2]) + HexValue(str[3]) \in 32..126
    THEN <<Ascii[16 * HexValue(str[2]) + HexValue(str[3]) - 31]>>
         \o decode(SubSeq(str, 4, Len(str)))
    ELSE <<str[1]>> \o decode(Tail(str))

\* The first position of c in str from i on, 0 where there is none.
RECURSIVE Find(_, _, _)
Find(str, c, i) ==
    IF i > Len(str) THEN 0 ELSE IF str[i] = c THEN i ELSE Find(str, c, i + 1)

\* str.split(c)
RECURSIVE split(_, _)
split(str, c) ==
    Pick({IF i = 0 THEN <<str>>
          ELSE <<SubSeq(str, 1, i - 1)>> \o split(SubSeq(str, i + 1, Len(str)), c) :
          i \in {Find(str, c, 1)}})

\* One name=value piece of a query as its decoded pair; a piece without =
\* has the empty value.
Pair(piece) ==
    Pick({IF i = 0 THEN [name |-> decode(piece), value |-> <<>>]
          ELSE [name |-> decode(SubSeq(piece, 1, i - 1)),
                value |-> decode(SubSeq(piece, i + 1, Len(piece)))] :
          i \in {Find(piece, "=", 1)}})

\* new URLSearchParams(init): a leading ? is dropped, the rest is split at
\* every &, empty pieces are skipped
URLSearchParams(init) ==
    Pick({[i \in DOMAIN pieces |-> Pair(pieces[i])] :
          pieces \in {SelectSeq(split(IF init # <<>> /\ init[1] = "?"
                                      THEN Tail(init) ELSE init, "&"),
                                LAMBDA piece : piece # <<>>)}})

\* params.get(name): the value of the first pair of that name; null, which
\* is written as the empty string, where there is none
get(params, name) ==
    IF \E i \in DOMAIN params : params[i].name = name
    THEN params[CHOOSE i \in DOMAIN params :
                    /\ params[i].name = name
                    /\ \A j \in 1..(i - 1) : params[j].name # name].value
    ELSE <<>>

\* params.set(name, value) on parameters that hold no pair of that name yet
set(params, name, value) == Append(params, [name |-> name, value |-> value])

\* params.toString()
RECURSIVE paramsToString(_)
paramsToString(params) ==
    IF params = <<>> THEN <<>>
    ELSE encode(params[1].name) \o <<"=">> \o encode(params[1].value)
         \o (IF Len(params) > 1 THEN <<"&">> \o paramsToString(Tail(params)) ELSE <<>>)

\* ------------------------------------------------------ Web Audio platform

\* new (window.AudioContext || window.webkitAudioContext)(): a TypeError
\* where the platform has neither, an error where it can open no more
newAudioContext(w, env) ==
    IF ~env.ctxOk
    THEN Throw(Log(w, Op("newAudioContextThrows", "engine", NULL, 0, 0)))
    ELSE Ret(Log([w EXCEPT !.ctxState = Append(@, env.ctxStart)],
                 Op("newAudioContext", "engine", NULL, Len(w.ctxState) + 1, 0)),
             Len(w.ctxState) + 1)

\* ctx.createAnalyser()
createAnalyser(w, ctx, who) ==
    Ret(Log([w EXCEPT !.analysers =
                 Append(@, [ctx |-> ctx, owner |-> who, fftSize |-> 2048])],
            Op("createAnalyser", who, NULL, Len(w.analysers) + 1, 0)),
        Len(w.analysers) + 1)

\* analyser.fftSize = n
setFftSize(w, an, n) == [w EXCEPT !.analysers[an].fftSize = n]

\* frequencyBinCount as it would be if it were the transform size
frequencyBinCount_FftSize(w, an) == w.analysers[an].fftSize

\* analyser.frequencyBinCount
frequencyBinCount(w, an) == w.analysers[an].fftSize \div 2

\* new Uint8Array(n)
newUint8Array(w, n, who) ==
    Ret(Log([w EXCEPT !.buffers = Append(@, n)],
            Op("newUint8Array", who, NULL, Len(w.buffers) + 1, n)),
        Len(w.buffers) + 1)

\* ctx.createMediaStreamSource(stream): a new node on every call
createMediaStreamSource(w, ctx, src) ==
    Ret(Log([w EXCEPT !.taps = Append(@, [src |-> src, ctx |-> ctx])],
            Op("createMediaStreamSource", "engine", src, Len(w.taps) + 1, 0)),
        Len(w.taps) + 1)

\* ctx.createMediaElementSource(element): InvalidStateError when the element
\* already feeds a source node, whoever made it
createMediaElementSource(w, ctx, src) ==
    IF src \in w.foreign \/ \E t \in DOMAIN w.taps : w.taps[t].src = src
    THEN Throw(Log([w EXCEPT !.tapCalls[src] = @ + 1],
                   Op("createMediaElementSource", "engine", src, 0, 0)))
    ELSE Ret(Log([w EXCEPT !.tapCalls[src] = @ + 1,
                           !.taps = Append(@, [src |-> src, ctx |-> ctx])],
                 Op("createMediaElementSource", "engine", src, Len(w.taps) + 1, 0)),
             Len(w.taps) + 1)

\* node.connect(ctx.destination)
connectDestination(w, tap) ==
    Log([w EXCEPT !.dest = @ \cup {tap}], Op("connectDestination", "engine", NULL, tap, 0))

\* node.connect(analyser): InvalidAccessError across contexts
connect(w, tap, an, who) ==
    IF w.taps[tap].ctx # w.analysers[an].ctx
    THEN Throw(Log(w, Op("connectThrows", who, NULL, tap, an)))
    ELSE Ret(Log([w EXCEPT !.edges = @ \cup {<<tap, an>>}],
                 Op("connect", who, NULL, tap, an)), 0)

\* node.disconnect(analyser): InvalidAccessError when not connected to it
disconnectFrom(w, tap, an, who) ==
    IF <<tap, an>> \notin w.edges
    THEN Throw(Log(w, Op("disconnectThrows", who, NULL, tap, an)))
    ELSE Ret(Log([w EXCEPT !.edges = @ \ {<<tap, an>>}],
                 Op("disconnect", who, NULL, tap, an)), 0)

\* analyser.disconnect(): drops the analyser's outputs; an analyser here
\* never has one, so the graph is as before
disconnectOutputs(w, an, who) == Log(w, Op("disconnectOutputs", who, NULL, 0, an))

\* analyser.getByteTimeDomainData(buf) / getByteFrequencyData(buf)
getByteTimeDomainData(w, an, buf, who) == Log(w, Op("getByteTimeDomainData", who, NULL, an, buf))
getByteFrequencyData(w, an, buf, who) == Log(w, Op("getByteFrequencyData", who, NULL, an, buf))

\* ------------------------------------------------------ animation frames

\* Handles of animation frames.  The platform never hands out a handle
\* twice and the program only stores handles, tests them for null and passes
\* them to cancelAnimationFrame, so a handle is named by its requester and
\* the least number no pending callback of that requester carries, and a
\* handle whose callback has fired or been cancelled (it can never be
\* pending again) is written Dead wherever it is still stored.
Dead == -1
Lane(who) == IF who = "main" THEN 0 ELSE 1
freshHandle(w, who) ==
    CHOOSE i \in {2 * k - Lane(who) : k \in 1..(Cardinality(w.rafQueue) + 1)} :
        /\ \A cb \in w.rafQueue : cb.id # i
        /\ \A k \in 1..(Cardinality(w.rafQueue) + 1) :
              2 * k - Lane(who) < i => \E cb \in w.rafQueue : cb.id = 2 * k - Lane(who)

retire(w, id) ==
    [w EXCEPT !.animationFrameRef = IF @ = id THEN Dead ELSE @,
              !.monAnimationFrameRef = IF @ = id THEN Dead ELSE @]

\* requestAnimationFrame(cb)
requestAnimationFrame(w, who, closure) ==
    Pick({Ret(Log([w EXCEPT !.rafQueue = @ \cup {[id |-> id, who |-> who,
                                                 closure |-> closure]}],
                  Op("requestAnimationFrame", who, NULL, id, 0)), id) :
          id \in {freshHandle(w, who)}})

\* cancelAnimationFrame(id): a handle that is not pending is ignored
cancelAnimationFrame(w, id, who) ==
    retire(Log([w EXCEPT !.rafQueue = {cb \in @ : cb.id # id},
                         !.cancelled = @ \cup {[who |-> cb.who, closure |-> cb.closure] :
                                                 cb \in {c \in w.rafQueue : c.id = id}}],
               Op("cancelAnimationFrame", who, NULL, id, 0)), id)

\* The platform takes a pending callback off the queue to run it.
fire(w, cb) ==
    retire(Log([w EXCEPT !.rafQueue = @ \ {cb}], Op("fire", cb.who, NULL, cb.id, 0)),
           cb.id)

\* ------------------------------------------------------------ AudioEngine

\* The context a call of getContext hands to its caller.
ReturnContext(w) == Ret(Log(w, Op("getContext", "engine", NULL, w.context, 0)), w.context)

\* getContext as it would be if it constructed a context only while it
\* holds none.
getContext_NoReplace(w, env) ==
    IF w.context = 0
    THEN Pick({IF n.threw THEN n ELSE ReturnContext([n.w EXCEPT !.context = n.ret]) :
               n \in {newAudioContext(w, env)}})
    ELSE ReturnContext(w)

\* getContext as it would be if it swallowed a failed construction and
\* returned what it holds.
getContext_Swallow(w, env) ==
    IF w.context = 0 \/ w.ctxState[w.context] = "closed"
    THEN Pick({IF n.threw THEN ReturnContext(n.w)
               ELSE ReturnContext([n.w EXCEPT !.context = n.ret]) :
               n \in {newAudioContext(w, env)}})
    ELSE ReturnContext(w)

\* getContext()
getContext(w, env) ==
    IF w.context = 0 \/ w.ctxState[w.context] = "closed"
    THEN Pick({IF n.threw THEN n ELSE ReturnContext([n.w EXCEPT !.context = n.ret]) :
               n \in {newAudioContext(w, env)}})
    ELSE ReturnContext(w)

\* The node a call of getOrCreateSourceNode hands to its caller.
Return(w, source, node) ==
    Ret(Log(w, Op("getOrCreateSourceNode", "engine", source, node, 0)), node)

\* getOrCreateSourceNode as it would be without the lookup in sourceNodes,
\* with streams cached like elements, and without the connection to the
\* destination; the properties below tell each of them from the code.
getOrCreateSourceNode_NoCache(w, source, env) ==
    Pick({IF c.threw THEN c
          ELSE IF source \in Streams
          THEN Pick({Return(n.w, source, n.ret) :
                     n \in {createMediaStreamSource(c.w, c.ret, source)}})
          ELSE Pick({IF n.threw THEN n
                     ELSE Return(connectDestination(n.w, n.ret), source, n.ret) :
                     n \in {createMediaElementSource(c.w, c.ret, source)}}) :
          c \in {getContext(w, env)}})

getOrCreateSourceNode_CacheAll(w, source, env) ==
    Pick({IF c.threw THEN c
          ELSE IF c.w.sourceNodes[source] # 0
          THEN Return(c.w, source, c.w.sourceNodes[source])
          ELSE IF source \in Streams
          THEN Pick({Return([n.w EXCEPT !.sourceNodes[source] = n.ret], source, n.ret) :
                     n \in {createMediaStreamSource(c.w, c.ret, source)}})
          ELSE Pick({IF n.threw THEN n
                     ELSE Return([connectDestination(n.w, n.ret) EXCEPT
                                     !.sourceNodes[source] = n.ret], source, n.ret) :
                     n \in {createMediaElementSource(c.w, c.ret, source)}}) :
          c \in {getContext(w, env)}})

getOrCreateSourceNode_NoDestination(w, source, env) ==
    Pick({IF c.threw THEN c
          ELSE IF source \in Streams
          THEN Pick({Return(n.w, source, n.ret) :
                     n \in {createMediaStreamSource(c.w, c.ret, source)}})
          ELSE IF c.w.sourceNodes[source] # 0
          THEN Return(c.w, source, c.w.sourceNodes[source])
          ELSE Pick({IF n.threw THEN n
                     ELSE Return([n.w EXCEPT !.sourceNodes[source] = n.ret],
                                 source, n.ret) :
                     n \in {createMediaElementSource(c.w, c.ret, source)}}) :
          c \in {getContext(w, env)}})

\* getOrCreateSourceNode as it would be if it entered the element in
\* sourceNodes before the node is constructed
getOrCreateSourceNode_CacheFirst(w, source, env) ==
    Pick({IF c.threw THEN c
          ELSE IF source \in Streams
          THEN Pick({Return(n.w, source, n.ret) :
                     n \in {createMediaStreamSource(c.w, c.ret, source)}})
          ELSE IF c.w.sourceNodes[source] # 0
          THEN Return(c.w, source, c.w.sourceNodes[source])
          ELSE Pick({IF n.threw THEN n
                     ELSE Return(connectDestination(n.w, n.ret), source, n.ret) :
                     n \in {createMediaElementSource(
                               [c.w EXCEPT !.sourceNodes[source] = Len(c.w.taps) + 1],
                               c.ret, source)}}) :
          c \in {getContext(w, env)}})

\* getOrCreateSourceNode(source)
getOrCreateSourceNode(w, source, env) ==
    Pick({IF c.threw THEN c
          ELSE IF source \in Streams
          THEN Pick({Return(n.w, source, n.ret) :
                     n \in {createMediaStreamSource(c.w, c.ret, source)}})
          ELSE IF c.w.sourceNodes[source] # 0
          THEN Return(c.w, source, c.w.sourceNodes[source])
          ELSE Pick({IF n.threw THEN n
                     ELSE Return([connectDestination(n.w, n.ret) EXCEPT
                                     !.sourceNodes[source] = n.ret], source, n.ret) :
                     n \in {createMediaElementSource(c.w, c.ret, source)}}) :
          c \in {getContext(w, env)}})

\* resume as it would be if it asked the context to resume in every state
resume_Always(w) ==
    Log([w EXCEPT !.resumePending = TRUE], Op("resume", "engine", NULL, w.context, 0))

\* resume(): asks the platform to resume a suspended context; the promise
\* settles later (ResumeSettles)
resume(w) ==
    IF w.context # 0 /\ w.ctxState[w.context] = "suspended"
    THEN Log([w EXCEPT !.resumePending = TRUE],
             Op("resume", "engine", NULL, w.context, 0))
    ELSE w

\* ----------------------------------------------------- WaveformVisualizer

VideoElements == {"e1"}

NoCleanup == [has |-> FALSE, sourceNode |-> 0, analyser |-> 0]
NoProps == [source |-> NULL, sensitivity |-> 10, mode |-> "waveform", palette |-> "indigo"]
Props == [source : Sources \cup {NULL}, sensitivity : Sensitivities,
          mode : RunModes, palette : Palettes]

\* canvasRef.current: the canvas is rendered unless the committed render
\* had hasError set (the fallback is rendered in its place)
canvasRef(w) == w.mounted /\ ~w.hasError

\* setHasError as it would be if the state update were lost
setHasError_Dropped(w, v) == w

\* setHasError(v): held until the render that follows the running effects
setHasError(w, v) == [w EXCEPT !.hasErrorNext = v]

\* The cleanup as it would be with sourceNode.disconnect() (every output of
\* the tap), without the disconnect, and without the try/catch around it.
connectionCleanup_DisconnectAll(w, cl) ==
    Ret([disconnectOutputs(
            IF cl.sourceNode # 0 /\ cl.analyser # 0
            THEN Log([w EXCEPT !.edges = {e \in @ : e[1] # cl.sourceNode},
                               !.dest = @ \ {cl.sourceNode}],
                     Op("disconnectAll", "main", NULL, cl.sourceNode, 0))
            ELSE w,
            cl.analyser, "main") EXCEPT !.analyserRef = 0], 0)

connectionCleanup_KeepsEdge(w, cl) ==
    Ret([disconnectOutputs(w, cl.analyser, "main") EXCEPT !.analyserRef = 0], 0)

connectionCleanup_NoCatch(w, cl) ==
    Pick({IF d.threw THEN d
          ELSE Ret([disconnectOutputs(d.w, cl.analyser, "main") EXCEPT
                       !.analyserRef = 0], 0) :
          d \in {IF cl.sourceNode # 0 /\ cl.analyser # 0
                 THEN disconnectFrom(w, cl.sourceNode, cl.analyser, "main")
                 ELSE Ret(w, 0)}})

\* Cleanup of the connection effect, with the sourceNode and analyser of
\* the effect run that returned it.
connectionCleanup(w, cl) ==
    Pick({Ret([disconnectOutputs(d.w, cl.analyser, "main") EXCEPT
                  !.analyserRef = 0], 0) :
          d \in {IF cl.sourceNode # 0 /\ cl.analyser # 0
                 THEN disconnectFrom(w, cl.sourceNode, cl.analyser, "main")
                 ELSE Ret(w, 0)}})

\* The try block of the connection effect and its catch; sourceNode, which
\* the cleanup closes over, is assigned by the first statement of the block.
connectionTry(w, an, source, env) ==
    Pick({IF s.threw
          THEN setHasError(s.w, TRUE)
          ELSE Pick({IF k.threw
                     THEN setHasError(k.w, TRUE)
                     ELSE Pick({Pick({[setHasError(f.w, FALSE) EXCEPT
                                          !.analyserRef = an,
                                          !.timeDataRef = t.ret,
                                          !.freqDataRef = f.ret] :
                                      f \in {newUint8Array(t.w,
                                                 frequencyBinCount(t.w, an), "main")}}) :
                                t \in {newUint8Array(k.w,
                                           frequencyBinCount(k.w, an), "main")}}) :
                     k \in {connect([s.w EXCEPT !.connCleanup.sourceNode = s.ret],
                                    s.ret, an, "main")}}) :
          s \in {getOrCreateSourceNode(w, source, env)}})

\* An exception leaves the handler.  Out of an effect, React hands it to the
\* nearest error boundary (escaped) and the effect has returned no cleanup;
\* out of an animation-frame callback, the platform reports it and goes on.
uncaught(w, who) == [Log(w, Op("uncaught", who, NULL, 0, 0)) EXCEPT !.escaped = TRUE]

\* 1. Audio Graph Connection Effect
connectionEffect(w, env) ==
    IF w.props.source = NULL
    THEN [w EXCEPT !.analyserRef = 0, !.connCleanup = NoCleanup]
    ELSE Pick({IF c.threw
               THEN [uncaught(c.w, "main") EXCEPT !.connCleanup = NoCleanup]
               ELSE Pick({connectionTry(
                              [setFftSize(a.w, a.ret, 512) EXCEPT
                                  !.connCleanup = [has |-> TRUE, sourceNode |-> 0,
                                                   analyser |-> a.ret]],
                              a.ret, w.props.source, env) :
                          a \in {createAnalyser(c.w, c.ret, "main")}}) :
               c \in {getContext(w, env)}})

\* What one effect run's draw closes over.
mainClosure(w) ==
    [source |-> w.props.source, sensitivity |-> w.props.sensitivity,
     mode |-> w.props.mode, palette |-> w.props.palette,
     analyser |-> 0, dataArray |-> 0]

\* The resize of the canvas to its layout box, marked with whether the box
\* is non-empty (width and height both non-zero).
resize(w, env) == Log(w, Op("resize", "main", NULL, IF env.laidOut THEN 1 ELSE 0, 0))

\* draw from the resize on as it would be without the return on an empty
\* surface
paint_NoLayoutCheck(w, closure, env) ==
    Log(Log(resize(w, env), Op("fillRect", "main", NULL, 0, 0)),
        Op(closure.mode, "main", NULL, closure.sensitivity, 0))

\* draw from the resize of the canvas on: nothing is painted while the
\* canvas has no layout box
paint(w, closure, env) ==
    IF ~env.laidOut
    THEN resize(w, env)
    ELSE IF env.fault = "paint"
    THEN uncaught(Log(resize(w, env), Op("fillRectThrows", "main", NULL, 0, 0)), "main")
    ELSE Log(IF closure.source \in VideoElements /\ env.videoReady
             THEN Log(Log(Log(resize(w, env),
                              Op("fillRect", "main", NULL, 0, 0)),
                          Op("drawImage", "main", closure.source, 0, 0)),
                      Op("fillRect", "main", NULL, 0, 0))
             ELSE Log(resize(w, env), Op("fillRect", "main", NULL, 0, 0)),
             Op(closure.mode, "main", NULL, closure.sensitivity, 0))

\* draw as it would be if it requested the next frame as its last step
draw_ScheduleLast(w, closure, env) ==
    IF w.analyserRef = 0 \/ w.timeDataRef = 0 \/ w.freqDataRef = 0
    THEN w
    ELSE Pick({[r.w EXCEPT !.animationFrameRef = r.ret] :
               r \in {requestAnimationFrame(
                          paint(getByteFrequencyData(
                                    getByteTimeDomainData(
                                        resume(w), w.analyserRef, w.timeDataRef,
                                        "main"),
                                    w.analyserRef, w.freqDataRef, "main"),
                                closure, env),
                          "main", closure)}})

\* draw, the animation-frame callback of the rendering loop
draw(w, closure, env) ==
    IF w.analyserRef = 0 \/ w.timeDataRef = 0 \/ w.freqDataRef = 0
    THEN w
    ELSE Pick({IF env.fault = "pull"
               THEN uncaught(Log(resume([r.w EXCEPT !.animationFrameRef = r.ret]),
                                 Op("getByteTimeDomainDataThrows", "main", NULL,
                                    w.analyserRef, w.timeDataRef)), "main")
               ELSE paint(getByteFrequencyData(
                              getByteTimeDomainData(
                                  resume([r.w EXCEPT !.animationFrameRef = r.ret]),
                                  w.analyserRef, w.timeDataRef, "main"),
                              w.analyserRef, w.freqDataRef, "main"),
                          closure, env) :
               r \in {requestAnimationFrame(w, "main", closure)}})

\* The cleanup as it would be if it cancelled nothing
loopCleanupRun_NoCancel(w) == Ret(w, 0)

\* Cleanup of the rendering loop effect
loopCleanupRun(w) ==
    IF w.animationFrameRef # 0
    THEN Ret(cancelAnimationFrame(w, w.animationFrameRef, "main"), 0)
    ELSE Ret(w, 0)

\* 2. Rendering Loop Effect
renderingLoopEffect(w, env) ==
    IF ~canvasRef(w) \/ w.analyserRef = 0 \/ w.timeDataRef = 0 \/ w.freqDataRef = 0
    THEN [w EXCEPT !.loopCleanup = FALSE]
    ELSE IF ~env.ok2d
    THEN [w EXCEPT !.loopCleanup = FALSE]
    ELSE Pick({[d EXCEPT !.loopCleanup = ~d.escaped] :
               d \in {draw(Log(w, Op("loopStart", "main", NULL, 0, 0)),
                           mainClosure(w), env)}})

\* Dependency lists of the two effects (connectionDeps_All: the connection
\* effect as it would be if it depended on every prop)
connectionDeps_All(p) == <<p.source, p.sensitivity, p.mode, p.palette>>
connectionDeps(p) == <<p.source>>
renderingLoopDeps(p) == <<p.source, p.sensitivity, p.mode, p.palette>>

\* The cleanups of the effects whose dependencies changed, in order of
\* declaration; each is marked in the log with what its closure holds.
runConnCleanup(w) ==
    IF w.connCleanup.has
    THEN [connectionCleanup(Log(w, Op("cleanup", "main", NULL,
                                      w.connCleanup.sourceNode,
                                      w.connCleanup.analyser)),
                            w.connCleanup).w EXCEPT !.connCleanup = NoCleanup]
    ELSE w

runLoopCleanup(w) ==
    IF w.loopCleanup
    THEN [loopCleanupRun(w).w EXCEPT !.loopCleanup = FALSE]
    ELSE w

runCleanups(w, conn, loop) ==
    Pick({IF loop THEN runLoopCleanup(w1) ELSE w1 :
          w1 \in {IF conn THEN runConnCleanup(w) ELSE w}})

\* The visualizer leaves the tree: the cleanups it still has run, its state
\* and refs go with it.
unmountMain(w) ==
    [runCleanups(w, TRUE, TRUE) EXCEPT
        !.mounted = FALSE, !.props = NoProps, !.hasError = FALSE,
        !.hasErrorNext = FALSE, !.analyserRef = 0, !.timeDataRef = 0,
        !.freqDataRef = 0, !.animationFrameRef = 0]

\* The effects whose dependencies changed, in order of declaration, then
\* the render their state updates ask for.  An exception that leaves an
\* effect ends the component's effects; the ErrorBoundary around the
\* visualizer renders its fallback in the visualizer's place.
runEffects(w, conn, loop, env) ==
    Pick({IF w1.escaped
          THEN unmountMain(w1)
          ELSE Pick({IF w2.escaped
                     THEN unmountMain(w2)
                     ELSE [w2 EXCEPT !.hasError = w2.hasErrorNext] :
                     w2 \in {IF loop THEN renderingLoopEffect(w1, env) ELSE w1}}) :
          w1 \in {IF conn THEN connectionEffect(w, env) ELSE w}})

\* A render with new props, committed.
update(w, p, env) ==
    runEffects([runCleanups(w, connectionDeps(p) # connectionDeps(w.props),
                            renderingLoopDeps(p) # renderingLoopDeps(w.props))
                   EXCEPT !.props = p],
               connectionDeps(p) # connectionDeps(w.props),
               renderingLoopDeps(p) # renderingLoopDeps(w.props), env)

\* ------------------------------------------------------------- RawMonitor

\* The monitor renders its canvas unconditionally.
monCanvasRef(w) == w.monMounted

monClosure(an, buf) ==
    [source |-> NULL, sensitivity |-> 0, mode |-> NULL, palette |-> NULL,
     analyser |-> an, dataArray |-> buf]

\* draw, the monitor's animation-frame callback
monDraw(w, closure) ==
    Pick({Log(Log(getByteTimeDomainData(
                      [r.w EXCEPT !.monAnimationFrameRef = r.ret],
                      closure.analyser, closure.dataArray, "mon"),
                  Op("clearRect", "mon", NULL, 0, 0)),
              Op("stroke", "mon", NULL, 0, 0)) :
          r \in {requestAnimationFrame(w, "mon", closure)}})

\* Cleanup of the monitor's effect
monCleanupRun(w, cl) ==
    Pick({Ret(disconnectOutputs(
                  (IF cl.sourceNode # 0 /\ cl.analyser # 0
                   THEN disconnectFrom(w1, cl.sourceNode, cl.analyser, "mon")
                   ELSE Ret(w1, 0)).w,
                  cl.analyser, "mon"), 0) :
          w1 \in {IF w.monAnimationFrameRef # 0
                  THEN cancelAnimationFrame(w, w.monAnimationFrameRef, "mon")
                  ELSE w}})

\* The monitor's effect from fftSize on, the analyser being connected: the
\* two early returns hand React no cleanup
monStart(w, cl, env) ==
    Pick({IF ~monCanvasRef(d.w)
          THEN [d.w EXCEPT !.monCleanup = NoCleanup]
          ELSE IF ~env.ok2d
          THEN [d.w EXCEPT !.monCleanup = NoCleanup]
          ELSE [monDraw(Log(d.w, Op("loopStart", "mon", NULL, 0, 0)),
                        monClosure(cl.analyser, d.ret)) EXCEPT !.monCleanup = cl] :
          d \in {Pick({newUint8Array(w1, frequencyBinCount(w1, cl.analyser), "mon") :
                       w1 \in {setFftSize(w, cl.analyser, 256)}})}})

\* The monitor's effect from createAnalyser to the end of its try/catch
monConnect(w, ctx, env) ==
    Pick({Pick({IF s.threw
                THEN [s.w EXCEPT !.monCleanup = NoCleanup]
                ELSE Pick({IF k.threw
                           THEN [k.w EXCEPT !.monCleanup = NoCleanup]
                           ELSE monStart(k.w, [has |-> TRUE, sourceNode |-> s.ret,
                                               analyser |-> a.ret], env) :
                           k \in {connect(s.w, s.ret, a.ret, "mon")}}) :
                s \in {getOrCreateSourceNode(a.w, w.monSource, env)}}) :
          a \in {createAnalyser(w, ctx, "mon")}})

\* The monitor's effect
monEffect(w, env) ==
    IF w.monSource = NULL
    THEN [w EXCEPT !.monCleanup = NoCleanup]
    ELSE Pick({IF c.threw
               THEN [uncaught(c.w, "mon") EXCEPT !.monCleanup = NoCleanup]
               ELSE monConnect(c.w, c.ret, env) :
               c \in {getContext(w, env)}})

monRunCleanup(w) ==
    IF w.monCleanup.has
    THEN [monCleanupRun(Log(w, Op("cleanup", "mon", NULL,
                                  w.monCleanup.sourceNode, w.monCleanup.analyser)),
                        w.monCleanup).w EXCEPT !.monCleanup = NoCleanup]
    ELSE w

\* The monitor leaves the tree.
unmountMon(w) ==
    [monRunCleanup(w) EXCEPT !.monMounted = FALSE, !.monSource = NULL,
                             !.monAnimationFrameRef = 0]

\* No error boundary stands above the monitor: an exception that leaves its
\* effect makes React unmount the whole tree, the visualizer included.
monRendered(w) ==
    IF w.escaped
    THEN Pick({IF m.mounted THEN unmountMain(m) ELSE m : m \in {unmountMon(w)}})
    ELSE w

\* -------------------------------------------------------------------- App

\* The query parameters the page is loaded with.  params.get gives null for
\* an absent parameter and the code tests every parameter for truthiness
\* first, so an absent parameter is written as the empty string.  The
\* sensitivity is kept as its characters, the others as whole values.
Str25 == <<"2", ".", "5">>
SensitivityParams ==
    {<<>>, Str25, <<"0", ".", "1">>, <<"5">>, <<"0">>, <<"-", "1">>,
     <<"1", "0", "0">>, <<"1", "e", "3">>, <<"a", "b", "c">>,
     <<"I", "n", "f", "i", "n", "i", "t", "y">>}
PaletteIds == {"indigo", "emerald", "rose", "amber", "cyan", "violet"}
U1 == <<"u", "1">>
Search == [url : {<<>>, U1}, mic : {"", "true"}, mode : {"", "bars", "spiral"},
           palette : {"", "cyan"}, fullscreen : {"", "true"},
           sensitivity : SensitivityParams]
NoSearch == [url |-> <<>>, mic |-> "", mode |-> "", palette |-> "", fullscreen |-> "",
             sensitivity |-> <<>>]
\* the queries explored: at most two parameters present
Searches == {q \in Search :
                Cardinality({f \in DOMAIN q : q[f] # NoSearch[f]}) <= 2}

\* App's state at its first render (the useState initial values), with the
\* query of the page; userActed and captureRequested record what has
\* happened: a click or a slider move, a call of getUserMedia; location is
\* window.location.search, the query of the page as replaceState last set
\* it.
AppStart(q) ==
    [loaded |-> FALSE, search |-> q, isActive |-> FALSE, isLoading |-> FALSE,
     sourceType |-> "mic", stream |-> NULL, streamUrl |-> <<>>, error |-> FALSE,
     sensitivity |-> Fin(1, 1), mode |-> "waveform", palette |-> "indigo",
     pendingFullscreen |-> FALSE, displayTime |-> <<"0", "0", ":", "0", "0">>,
     lastTime |-> Fin(0, 1), pending |-> "none", userActed |-> FALSE,
     captureRequested |-> FALSE, location |-> <<>>]

\* 1. Parse URL Parameters on mount
parseUrlParameters(a) ==
    [a EXCEPT
        !.streamUrl = IF a.search.url # <<>> THEN a.search.url ELSE @,
        !.sourceType = IF a.search.url # <<>> THEN "url" ELSE @,
        !.mode = IF a.search.mode # "" /\ a.search.mode \in Modes
                 THEN a.search.mode ELSE @,
        !.palette = IF a.search.palette # "" /\ a.search.palette \in PaletteIds
                    THEN a.search.palette ELSE @,
        !.pendingFullscreen = IF a.search.fullscreen = "true" THEN TRUE ELSE @,
        !.sensitivity = IF a.search.sensitivity # <<>>
                        THEN Pick({IF ~isNaN(n) THEN n ELSE @ :
                                   n \in {parseFloat(a.search.sensitivity)}})
                        ELSE @]

\* The characters of the names the program uses: the modes, the palettes,
\* the parameter names and the word true.
Chars ==
    [waveform |-> <<"w", "a", "v", "e", "f", "o", "r", "m">>,
     bars |-> <<"b", "a", "r", "s">>,
     radial |-> <<"r", "a", "d", "i", "a", "l">>,
     particles |-> <<"p", "a", "r", "t", "i", "c", "l", "e", "s">>,
     indigo |-> <<"i", "n", "d", "i", "g", "o">>,
     emerald |-> <<"e", "m", "e", "r", "a", "l", "d">>,
     rose |-> <<"r", "o", "s", "e">>,
     amber |-> <<"a", "m", "b", "e", "r">>,
     cyan |-> <<"c", "y", "a", "n">>,
     violet |-> <<"v", "i", "o", "l", "e", "t">>,
     true |-> <<"t", "r", "u", "e">>,
     url |-> <<"u", "r", "l">>,
     mic |-> <<"m", "i", "c">>,
     mode |-> <<"m", "o", "d", "e">>,
     palette |-> <<"p", "a", "l", "e", "t", "t", "e">>,
     fullscreen |-> <<"f", "u", "l", "l", "s", "c", "r", "e", "e", "n">>,
     sensitivity |-> <<"s", "e", "n", "s", "i", "t", "i", "v", "i", "t", "y">>]

\* A parameter value as the name it spells: the empty string for an absent
\* parameter, ? for a value that spells no name the program knows.
Ident(v) ==
    IF v = <<>> THEN ""
    ELSE IF \E id \in DOMAIN Chars : Chars[id] = v
    THEN CHOOSE id \in DOMAIN Chars : Chars[id] = v
    ELSE "?"

\* What the parsing effect reads with params.get from the query search.
SearchOf(search) ==
    Pick({[url |-> get(params, Chars.url), mic |-> Ident(get(params, Chars.mic)),
           mode |-> Ident(get(params, Chars.mode)),
           palette |-> Ident(get(params, Chars.palette)),
           fullscreen |-> Ident(get(params, Chars.fullscreen)),
           sensitivity |-> get(params, Chars.sensitivity)] :
          params \in {URLSearchParams(search)}})

\* The parameters the synchronisation effect sets, in its order.
syncParams(a) ==
    (IF a.streamUrl # <<>> /\ a.sourceType = "url"
     THEN set(<<>>, Chars.url, a.streamUrl) ELSE <<>>)
    \o (IF a.mode # "waveform" THEN set(<<>>, Chars.mode, Chars[a.mode]) ELSE <<>>)
    \o (IF a.palette # "indigo"
        THEN set(<<>>, Chars.palette, Chars[a.palette]) ELSE <<>>)
    \o (IF a.sensitivity # Fin(1, 1)
        THEN set(<<>>, Chars.sensitivity, NumberToString(a.sensitivity)) ELSE <<>>)

\* 2. Synchronize State back to URL: replaceState with the path and the
\* query of the parameters (the page is no blob and the History API is
\* not restricted).
syncUrl(a) ==
    Pick({[a EXCEPT !.location = IF queryString # <<>>
                                 THEN <<"?">> \o queryString ELSE <<>>] :
          queryString \in {paramsToString(syncParams(a))}})

\* The dependencies of the synchronisation effect.
Deps(a) == <<a.streamUrl, a.sourceType, a.mode, a.palette, a.sensitivity>>

\* The effects of the first render, in their order: the parsing effect
\* reads the query and queues its updates, the synchronisation effect
\* writes the URL of the initial state; the render with the updates runs
\* the synchronisation effect again where a dependency has changed.
mountEffects(a) ==
    Pick({IF Deps(p) # Deps(a) THEN syncUrl(p)
          ELSE [p EXCEPT !.location = first.location] :
          p \in {parseUrlParameters(a)}, first \in {syncUrl(a)}})

\* A handler has set state: the render with the state b runs the
\* synchronisation effect where a dependency has changed.
setState(a, b) == IF Deps(b) # Deps(a) THEN syncUrl(b) ELSE b

\* formatTime(seconds)
formatTime(seconds) ==
    IF isNaN(seconds) \/ ~isFinite(seconds)
    THEN <<"0", "0", ":", "0", "0">>
    ELSE Pick({(IF hrs > 0 THEN padStart(toString(hrs), 2, "0") \o <<":">> ELSE <<>>)
               \o padStart(toString(Floor(Div(Rem(seconds, Fin(3600, 1)),
                                               Fin(60, 1)))), 2, "0")
               \o <<":">>
               \o padStart(toString(Floor(Rem(seconds, Fin(60, 1)))), 2, "0") :
               hrs \in {Floor(Div(seconds, Fin(3600, 1)))}})

\* The timer effect on isActive: an inactive app shows 00:00 (lastTime, the
\* time last shown, goes to 0 with it).
timerEffect(a) ==
    IF a.isActive THEN a
    ELSE [a EXCEPT !.displayTime = <<"0", "0", ":", "0", "0">>, !.lastTime = Fin(0, 1)]

\* stopAudio: the stream's tracks stop and the video is unloaded, which
\* rejects a pending play() with an AbortError that its catch ignores; a
\* pending getUserMedia is not withdrawn.
stopAudio(a) ==
    timerEffect([a EXCEPT !.stream = NULL, !.isActive = FALSE, !.isLoading = FALSE,
                          !.pending = IF @ = "url" THEN "none" ELSE @])

\* startAudio up to its first await: capture is requested from the
\* microphone, or the stream URL is loaded into the video element and
\* played.
startAudio(a) ==
    IF a.sourceType = "mic"
    THEN [a EXCEPT !.error = FALSE, !.isLoading = TRUE, !.pending = "mic",
                   !.captureRequested = TRUE]
    ELSE IF a.streamUrl = <<>>
    THEN [a EXCEPT !.error = TRUE, !.isLoading = FALSE]
    ELSE [a EXCEPT !.error = FALSE, !.isLoading = TRUE, !.pending = "url"]

\* startAudio from the settling of getUserMedia or play() on
startSettled(a, ok) ==
    IF ~ok
    THEN [a EXCEPT !.error = TRUE, !.isLoading = FALSE, !.pending = "none"]
    ELSE timerEffect([a EXCEPT !.stream = IF a.pending = "mic" THEN "s1" ELSE @,
                               !.isActive = TRUE, !.isLoading = FALSE,
                               !.pending = "none"])

\* toggleAudio, the click handler of the start/stop button
toggleAudio(a) ==
    IF a.isActive \/ a.isLoading
    THEN stopAudio(a)
    ELSE startAudio([a EXCEPT !.pendingFullscreen = FALSE])

\* The value of the sensitivity slider (min 0.1, max 5, step 0.1) at v
\* tenths, as the string the input element reports.
SliderSteps == 1..50
rangeValue(v) ==
    toString(v \div 10)
        \o (IF v % 10 = 0 THEN <<>> ELSE <<".">> \o toString(v % 10))

\* -------------------------------------------------------------- rendering

NoFrame == [mode |-> NULL, timeData |-> <<>>, freqData |-> <<>>,
            sensitivity |-> Fin(1, 1), width |-> Fin(0, 1), height |-> Fin(0, 1),
            shapes |-> <<>>]

\* The waveform branch of draw: the vertices of the polyline, one per bin.
waveform(timeData, bufferLength, sensitivity, width, height) ==
    [i \in 1..bufferLength |->
        [x |-> Mul(Fin(i - 1, 1), Div(width, Fin(bufferLength, 1))),
         y |-> Add(Div(height, Fin(2, 1)),
                   Mul(Mul(Sub(Div(Fin(timeData[i], 1), Fin(128, 1)), Fin(1, 1)),
                           sensitivity),
                       Div(height, Fin(2, 1))))]]

\* barHeight of one bin of the bars branch
barHeight(sample, sensitivity, height) ==
    Mul(Mul(Mul(Div(Fin(sample, 1), Fin(255, 1)), height), Fin(8, 10)), sensitivity)

\* The bars branch of draw: the bar of every bin (the cap above it follows
\* from the bar).
bars(freqData, bufferLength, sensitivity, width, height) ==
    [i \in 1..bufferLength |->
        [x |-> Mul(Fin(i - 1, 1),
                   Add(Mul(Div(width, Fin(bufferLength, 1)), Fin(25, 10)), Fin(1, 1))),
         y |-> Sub(height, barHeight(freqData[i], sensitivity, height)),
         w |-> Sub(Mul(Div(width, Fin(bufferLength, 1)), Fin(25, 10)), Fin(2, 1)),
         h |-> barHeight(freqData[i], sensitivity, height)]]

\* Math.max(a, b): NaN where either is NaN
max(a, b) == IF isNaN(a) \/ isNaN(b) THEN NaN ELSE IF Less(a, b) THEN b ELSE a

\* buf[index] / d for a Uint8Array: an index outside the array reads
\* undefined, and undefined / d is NaN
sample(buf, index, d) ==
    IF index >= 0 /\ index < Len(buf) THEN Div(Fin(buf[index + 1], 1), Fin(d, 1)) ELSE NaN

\* The particles branch of draw: for each of the count particles the bin it
\* samples, the radius of its disc and its distance from the centre (the
\* angle of particle i is i/count of a turn whatever the samples).
count == 48
particles(freqData, timeData, bufferLength, sensitivity, height) ==
    [p \in 1..count |->
        Pick({[index |-> index,
               radius |-> max(Fin(2, 1),
                              Div(Mul(Mul(sample(freqData, index, 255), Fin(80, 1)),
                                      sensitivity), Fin(2, 1))),
               dist |-> Add(Div(height, Fin(35, 10)),
                            Mul(sample(timeData, index, 255), Fin(30, 1)))] :
              index \in {(p - 1) * Floor(Fin(bufferLength, count))}})]

\* The crop rectangle as it would be with the comparison of the aspect
\* ratios the other way round
crop_Swapped(vW, vH, width, height) ==
    Pick({IF Lt(vAspect, cAspect)
          THEN Pick({[sx |-> FDiv(FSub(vW, sW), Num(2)), sy |-> Num(0),
                      sW |-> sW, sH |-> vH] :
                     sW \in {FMul(vH, cAspect)}})
          ELSE Pick({[sx |-> Num(0), sy |-> FDiv(FSub(vH, sH), Num(2)),
                      sW |-> vW, sH |-> sH] :
                     sH \in {FDiv(vW, cAspect)}}) :
          vAspect \in {FDiv(vW, vH)}, cAspect \in {FDiv(width, height)}})

\* The source rectangle of drawImage when a video frame is composited: the
\* part of a vW x vH frame that is drawn onto a width x height surface.
crop(vW, vH, width, height) ==
    Pick({IF Lt(cAspect, vAspect)
          THEN Pick({[sx |-> FDiv(FSub(vW, sW), Num(2)), sy |-> Num(0),
                      sW |-> sW, sH |-> vH] :
                     sW \in {FMul(vH, cAspect)}})
          ELSE Pick({[sx |-> Num(0), sy |-> FDiv(FSub(vH, sH), Num(2)),
                      sW |-> vW, sH |-> sH] :
                     sH \in {FDiv(vW, cAspect)}}) :
          vAspect \in {FDiv(vW, vH)}, cAspect \in {FDiv(width, height)}})

\* ----------------------------------------------------------------- actions

Init ==
    /\ context = 0
    /\ sourceNodes = [s \in Sources |-> 0]
    /\ ctxState = <<>>
    /\ resumePending = FALSE
    /\ taps = <<>>
    /\ foreign \in SUBSET ForeignCandidates
    /\ tapCalls = [e \in Elements |-> 0]
    /\ dest = {}
    /\ analysers = <<>>
    /\ edges = {}
    /\ buffers = <<>>
    /\ rafQueue = {}
    /\ cancelled = {}
    /\ mounted = FALSE
    /\ props = NoProps
    /\ hasError = FALSE
    /\ analyserRef = 0
    /\ timeDataRef = 0
    /\ freqDataRef = 0
    /\ animationFrameRef = 0
    /\ connCleanup = NoCleanup
    /\ loopCleanup = FALSE
    /\ monMounted = FALSE
    /\ monSource = NULL
    /\ monAnimationFrameRef = 0
    /\ monCleanup = NoCleanup
    /\ ops = <<>>
    /\ app = AppStart(NoSearch)
    /\ frame = NoFrame

\* A session setup constructs an analyser; the run is cut off at MaxAnalysers.
CanSetUp(src) == src = NULL \/ Len(analysers) < MaxAnalysers

\* The host mounts <WaveformVisualizer source sensitivity mode palette />.
MainMount(p, env) ==
    /\ ~mounted
    /\ CanSetUp(p.source)
    /\ \E w \in {runEffects([World EXCEPT !.mounted = TRUE, !.props = p],
                            TRUE, TRUE, env)} : Commit(w)

\* The host passes another source.
MainSetSource(src, env) ==
    /\ mounted
    /\ src # props.source
    /\ CanSetUp(src)
    /\ \E w \in {update(World, [props EXCEPT !.source = src], env)} : Commit(w)

\* The host passes another sensitivity, mode or palette.
MainSetConfig(p, env) ==
    /\ mounted
    /\ p.source = props.source
    /\ p # props
    /\ \E w \in {update(World, p, env)} : Commit(w)

\* The host unmounts the visualizer: its state and refs go with it.
MainUnmount ==
    /\ mounted
    /\ \E w \in {unmountMain(World)} : Commit(w)

\* The platform fires a pending animation-frame callback of the visualizer.
MainTick(env) ==
    \E cb \in rafQueue :
        /\ cb.who = "main"
        /\ \E w \in {draw(fire(World, cb), cb.closure, env)} : Commit(w)

\* The host mounts <RawMonitor source />.
MonMount(src, env) ==
    /\ ~monMounted
    /\ CanSetUp(src)
    /\ \E w \in {monRendered(monEffect([World EXCEPT !.monMounted = TRUE,
                                                      !.monSource = src], env))} :
          Commit(w)

\* The host passes the monitor another source.
MonSetSource(src, env) ==
    /\ monMounted
    /\ src # monSource
    /\ CanSetUp(src)
    /\ \E w \in {monRendered(monEffect([monRunCleanup(World) EXCEPT
                                              !.monSource = src], env))} :
          Commit(w)

\* The host unmounts the monitor.
MonUnmount ==
    /\ monMounted
    /\ \E w \in {unmountMon(World)} : Commit(w)

\* The platform fires a pending animation-frame callback of the monitor.
MonTick ==
    \E cb \in rafQueue :
        /\ cb.who = "mon"
        /\ \E w \in {monDraw(fire(World, cb), cb.closure)} : Commit(w)

\* .catch(() => {}) on the promise audioEngine.resume() returns: the
\* rejection is dropped (resumeCatch_Faults: the catch as it would be if it
\* put the session into the fault state)
resumeCatch_Faults(w) == [w EXCEPT !.hasError = TRUE]
resumeCatch(w) == w

\* The promise of context.resume() settles: resolved, the context runs;
\* rejected, the rejection goes to the caller's catch.  Not a step of Spec,
\* whose contexts start running.
ResumeSettles(ok) ==
    /\ resumePending
    /\ \E w \in {Log([World EXCEPT !.resumePending = FALSE],
                     Op("resumeSettles", "engine", NULL, context,
                        IF ok THEN 1 ELSE 0))} :
          Commit(IF ok
                 THEN [w EXCEPT !.ctxState = [@ EXCEPT ![w.context] = "running"]]
                 ELSE resumeCatch(w))

\* The platform's answers in the runs of Spec: every context starts
\* running (the host mounts the components after a user gesture), the canvas
\* is laid out and no video frame is composited; whether the canvas yields
\* a 2D context is open at every effect run, and whether a context can be
\* constructed is open at every effect run that can reach the constructor.
ConstructorReachable == context = 0 \/ ctxState[context] = "closed"
PlainEnv == [ctxOk : BOOLEAN, ctxStart : {"running"}, ok2d : BOOLEAN,
             laidOut : {TRUE}, videoReady : {FALSE}, fault : {"none"}]
SetupEnv == {e \in PlainEnv : e.ctxOk \/ ConstructorReachable}
TickEnv == {e \in SetupEnv : e.ok2d /\ e.ctxOk}
MonEnv == SetupEnv

\* The configurations the host moves between: each of sensitivity, mode and
\* palette changed on its own.
Configs == {c \in [sensitivity : Sensitivities, mode : RunModes, palette : Palettes] :
               Cardinality({f \in {"sensitivity", "mode", "palette"} :
                               c[f] # NoProps[f]}) <= 1}
WithConfig(src, c) == [source |-> src, sensitivity |-> c.sensitivity,
                       mode |-> c.mode, palette |-> c.palette]

Next ==
    \/ \E src \in Sources \cup {NULL}, c \in Configs, env \in SetupEnv :
          MainMount(WithConfig(src, c), env)
    \/ \E src \in Sources \cup {NULL}, env \in SetupEnv : MainSetSource(src, env)
    \/ \E c \in Configs, env \in SetupEnv : MainSetConfig(WithConfig(props.source, c), env)
    \/ MainUnmount
    \/ \E env \in TickEnv : MainTick(env)
    \/ \E src \in Sources \cup {NULL}, env \in MonEnv : MonMount(src, env)
    \/ \E src \in Sources \cup {NULL}, env \in MonEnv : MonSetSource(src, env)
    \/ MonUnmount
    \/ MonTick

Spec == Init /\ [][Next]_vars

\* A cancellation that races: a callback the last handler cancelled was
\* already taken off the queue by the platform and runs once more.
MainStaleTick(env) ==
    \E c \in cancelled :
        /\ c.who = "main"
        /\ Cardinality(rafQueue) < MaxPending
        /\ \E w \in {draw(Log(World, Op("staleFire", "main", NULL, 0, 0)),
                           c.closure, env)} : Commit(w)

MonStaleTick ==
    \E c \in cancelled :
        /\ c.who = "mon"
        /\ Cardinality(rafQueue) < MaxPending
        /\ \E w \in {monDraw(Log(World, Op("staleFire", "mon", NULL, 0, 0)),
                              c.closure)} : Commit(w)

\* The runs with racing cancellations: the host moves between a media
\* element and no source and between two modes, and the platform refuses
\* nothing.
RaceSources == {"e1", NULL}
RaceConfigs == {c \in Configs : c.sensitivity = NoProps.sensitivity
                                  /\ c.palette = NoProps.palette}
RaceEnv == {e \in TickEnv : e.ctxOk}

NextRace ==
    \/ \E src \in RaceSources, c \in RaceConfigs, env \in RaceEnv :
          MainMount(WithConfig(src, c), env)
    \/ \E src \in RaceSources, env \in RaceEnv : MainSetSource(src, env)
    \/ \E c \in RaceConfigs, env \in RaceEnv :
          MainSetConfig(WithConfig(props.source, c), env)
    \/ MainUnmount
    \/ \E env \in RaceEnv : MainTick(env)
    \/ \E src \in RaceSources, env \in RaceEnv : MonMount(src, env)
    \/ \E src \in RaceSources, env \in RaceEnv : MonSetSource(src, env)
    \/ MonUnmount
    \/ MonTick
    \/ \E env \in RaceEnv : MainStaleTick(env)
    \/ MonStaleTick

SpecRace == Init /\ [][NextRace]_vars

\* The rendering loop under the platform's faults: contexts may start
\* suspended (no user gesture yet) and resume when the platform lets them, and
\* in a tick a sample pull or a draw operation may throw and a media element
\* may have a decoded video frame.
TickSources == {"e1", "s1"}
StartEnv == {e \in Env : /\ e.ctxOk /\ e.ok2d /\ e.laidOut /\ ~e.videoReady
                         /\ e.fault = "none"}
FaultEnv == {e \in Env : e.ctxOk /\ e.ok2d /\ e.laidOut /\ e.ctxStart = "running"}

NextTick ==
    \/ \E src \in TickSources, env \in StartEnv :
          MainMount(WithConfig(src, NoProps), env)
    \/ \E c \in Configs, env \in TickEnv :
          MainSetConfig(WithConfig(props.source, c), env)
    \/ MainUnmount
    \/ \E env \in FaultEnv : MainTick(env)
    \/ \E ok \in BOOLEAN : ResumeSettles(ok)

SpecTick == Init /\ [][NextTick]_vars

\* The rendering loop while the canvas is being laid out: at every run of
\* draw the canvas may or may not have a layout box yet, and a video
\* element may or may not have a decoded frame.
LayoutEnv == [ctxOk : {TRUE}, ctxStart : {"running"}, ok2d : {TRUE},
              laidOut : BOOLEAN, videoReady : BOOLEAN, fault : {"none"}]

NextLayout ==
    \/ \E src \in TickSources, c \in Configs, env \in LayoutEnv :
          MainMount(WithConfig(src, c), env)
    \/ \E c \in Configs, env \in LayoutEnv :
          MainSetConfig(WithConfig(props.source, c), env)
    \/ MainUnmount
    \/ \E env \in LayoutEnv : MainTick(env)

SpecLayout == Init /\ [][NextLayout]_vars

\* The visualizer under source changes while the platform gives it what it
\* asks for: a context, a 2D context and a laid-out canvas.  A media
\* element tapped by other code is the one source whose connection fails.
RecoverSources == {"e1", "e2"}
RecoverEnv == [ctxOk : {TRUE}, ctxStart : {"running"}, ok2d : {TRUE},
               laidOut : {TRUE}, videoReady : {FALSE}, fault : {"none"}]

NextRecover ==
    \/ \E src \in RecoverSources, env \in RecoverEnv :
          MainMount(WithConfig(src, NoProps), env)
    \/ \E src \in RecoverSources, env \in RecoverEnv : MainSetSource(src, env)
    \/ \E c \in Configs, env \in RecoverEnv :
          MainSetConfig(WithConfig(props.source, c), env)
    \/ MainUnmount
    \/ \E env \in RecoverEnv : MainTick(env)

SpecRecover == Init /\ [][NextRecover]_vars

\* The engine on its own: audioEngine is an exported singleton, any module
\* may call it, and whoever holds the context it returned may close it.
EngGetContext(env) ==
    \E r \in {getContext(World, env)} : Commit(r.w)

EngGetOrCreateSourceNode(source, env) ==
    /\ Len(taps) < MaxTaps
    /\ source \in Elements => tapCalls[source] < MaxTaps
    /\ \E r \in {getOrCreateSourceNode(World, source, env)} : Commit(r.w)

\* context.close() by a holder of the context
CloseContext ==
    /\ context # 0
    /\ ctxState[context] # "closed"
    /\ Len(ctxState) < MaxContexts
    /\ Commit([World EXCEPT !.ctxState[context] = "closed"])

EngineEnv == {e \in Env : /\ e.ctxStart = "running" /\ e.ok2d /\ e.laidOut
                          /\ ~e.videoReady /\ e.fault = "none"}

NextEngine ==
    \/ \E env \in EngineEnv : EngGetContext(env)
    \/ \E source \in Sources, env \in EngineEnv : EngGetOrCreateSourceNode(source, env)
    \/ CloseContext

SpecEngine == Init /\ [][NextEngine]_vars

\* App is mounted on a page loaded with the query q: the effects of the
\* first render run.
AppMount(q) ==
    /\ ~app.loaded
    /\ app' = mountEffects([app EXCEPT !.loaded = TRUE, !.search = q])
    /\ UNCHANGED <<audioVars, frame>>

\* The user clicks the start/stop button.
ToggleAudio ==
    /\ app.loaded
    /\ app' = toggleAudio([app EXCEPT !.userActed = TRUE])
    /\ UNCHANGED <<audioVars, frame>>

\* getUserMedia or play() settles.
StartSettles(ok) ==
    /\ app.pending # "none"
    /\ app' = startSettled(app, ok)
    /\ UNCHANGED <<audioVars, frame>>

\* The user moves the sensitivity slider to v tenths.
SetSensitivity(v) ==
    /\ app.loaded
    /\ app' = setState(app, [app EXCEPT !.sensitivity = parseFloat(rangeValue(v)),
                                        !.userActed = TRUE])
    /\ UNCHANGED <<audioVars, frame>>

\* The interval timer of an active app fires with the media time or the
\* elapsed time at seconds.
TimerTick(seconds) ==
    /\ app.isActive
    /\ app' = [app EXCEPT !.displayTime = formatTime(seconds), !.lastTime = seconds]
    /\ UNCHANGED <<audioVars, frame>>

\* The slider positions and the times explored; the times hold the
\* boundaries of the minute and the hour, a fractional time and the values
\* formatTime guards against.
SliderInputs == {1, 10, 25, 50}
TimeInputs == {Fin(0, 1), Fin(59, 1), Fin(60, 1), Fin(65, 1), Fin(599, 10),
               Fin(35999, 10), Fin(3600, 1), Fin(3661, 1), Fin(86399, 1),
               Fin(360000, 1), NaN, Inf(1)}

NextApp ==
    \/ \E q \in Searches : AppMount(q)
    \/ ToggleAudio
    \/ \E ok \in BOOLEAN : StartSettles(ok)
    \/ \E v \in SliderInputs : SetSensitivity(v)
    \/ \E t \in TimeInputs : TimerTick(t)

SpecApp == Init /\ [][NextApp]_vars

\* The App of a page opened at the query search, after the effects of its
\* first render.
pageLoad(search) ==
    mountEffects([AppStart(SearchOf(search)) EXCEPT !.loaded = TRUE,
                                                     !.location = search])

\* The page is opened at the query search.
PageLoad(search) ==
    /\ ~app.loaded
    /\ app' = pageLoad(search)
    /\ UNCHANGED <<audioVars, frame>>

\* The page is reloaded at the URL it shows.
Reload ==
    /\ app.loaded
    /\ app' = pageLoad(app.location)
    /\ UNCHANGED <<audioVars, frame>>

\* The user clicks the Microphone or the Stream URL button.
SelectSource(type) ==
    /\ app.loaded /\ ~app.isActive /\ ~app.isLoading
    /\ app' = setState(app, [app EXCEPT !.sourceType = type, !.error = FALSE,
                                        !.userActed = TRUE])
    /\ UNCHANGED <<audioVars, frame>>

\* The user edits the stream URL field, which is shown for the source type
\* url.
TypeStreamUrl(value) ==
    /\ app.loaded /\ ~app.isActive /\ ~app.isLoading
    /\ app.sourceType = "url"
    /\ app' = setState(app, [app EXCEPT !.sourceType = "url", !.streamUrl = value,
                                        !.userActed = TRUE])
    /\ UNCHANGED <<audioVars, frame>>

\* The user clicks a mode button, a palette swatch.
SetMode(m) ==
    /\ app.loaded
    /\ app' = setState(app, [app EXCEPT !.mode = m, !.userActed = TRUE])
    /\ UNCHANGED <<audioVars, frame>>

SetPalette(p) ==
    /\ app.loaded
    /\ app' = setState(app, [app EXCEPT !.palette = p, !.userActed = TRUE])
    /\ UNCHANGED <<audioVars, frame>>

\* The stream URLs typed: none, a plain one, and ones with the characters
\* that separate, open or escape the parts of a query.  The queries a page
\* is opened with: none, parameters in and out of their canonical spelling,
\* an unknown mode, a parameter the program does not write.
StreamUrls ==
    {<<>>,
     <<"u", "1">>,
     <<"a", "&", "b", "=", "c">>,
     <<"a", " ", "+", "%", "2", "6">>,
     <<"h", ":", "/", "/", "x", "?", "q", "=", "1", "#", "f">>}
PageQueries ==
    {<<>>,
     <<"?", "m", "o", "d", "e", "=", "r", "a", "d", "i", "a", "l", "&", "p", "a", "l", "e", "t", "t", "e", "=", "c", "y", "a", "n">>,
     <<"?", "s", "e", "n", "s", "i", "t", "i", "v", "i", "t", "y", "=", "2", ".", "5", "0">>,
     <<"?", "u", "r", "l", "=", "u", "1", "&", "s", "e", "n", "s", "i", "t", "i", "v", "i", "t", "y", "=", "1", "e", "-", "7">>,
     <<"?", "s", "e", "n", "s", "i", "t", "i", "v", "i", "t", "y", "=", "I", "n", "f", "i", "n", "i", "t", "y">>,
     <<"?", "m", "o", "d", "e", "=", "s", "p", "i", "r", "a", "l", "&", "u", "r", "l", "=", "a", "%", "2", "6", "b">>,
     <<"s", "e", "n", "s", "i", "t", "i", "v", "i", "t", "y", "=", "-", "0", ".", "5", "&", "m", "i", "c", "=", "t", "r", "u", "e">>}
UrlModes == {"waveform", "radial"}
UrlPalettes == {"indigo", "cyan"}
UrlSliderInputs == {25}

NextUrl ==
    \/ \E search \in PageQueries : PageLoad(search)
    \/ Reload
    \/ \E type \in {"mic", "url"} : SelectSource(type)
    \/ \E value \in StreamUrls : TypeStreamUrl(value)
    \/ \E m \in UrlModes : SetMode(m)
    \/ \E p \in UrlPalettes : SetPalette(p)
    \/ \E v \in UrlSliderInputs : SetSensitivity(v)

SpecUrl == Init /\ [][NextUrl]_vars

\* One frame of the waveform or of the bars is drawn from given samples on a
\* surface of the given size.  draw keeps nothing from one frame to the
\* next (every value it computes is a local), so each run draws one frame.
RenderFrame(mode, timeData, freqData, sensitivity, width, height) ==
    /\ frame = NoFrame
    /\ width.n # 0 /\ height.n # 0
    /\ frame' = [mode |-> mode, timeData |-> timeData, freqData |-> freqData,
                 sensitivity |-> sensitivity, width |-> width, height |-> height,
                 shapes |-> IF mode = "waveform"
                            THEN waveform(timeData, Bins, sensitivity, width, height)
                            ELSE bars(freqData, Bins, sensitivity, width, height)]
    /\ UNCHANGED <<audioVars, app>>

\* The inputs of a frame: every buffer of Bins samples over the extreme and
\* the midpoint values, every sensitivity App can hand over (from the URL
\* parameter or from the slider), surfaces with integral and fractional
\* sizes.
SampleValues == {0, 128, 255}
Buffers == [1..Bins -> SampleValues]
AppSensitivities ==
    {parseUrlParameters(AppStart(q)).sensitivity : q \in Searches}
        \cup {parseFloat(rangeValue(v)) : v \in SliderSteps}
Widths == {Fin(640, 1)}
Heights == {Fin(1, 1), Fin(256, 1), Fin(1665, 4)}

\* One frame of the particles is drawn from the buffers of the visualizer's
\* analyser, which has fftSize 512 and so 256 bins.
BinCount == 512 \div 2
RenderParticles(freqData, timeData, sensitivity, width, height) ==
    /\ frame = NoFrame
    /\ width.n # 0 /\ height.n # 0
    /\ frame' = [mode |-> "particles", timeData |-> timeData, freqData |-> freqData,
                 sensitivity |-> sensitivity, width |-> width, height |-> height,
                 shapes |-> particles(freqData, timeData, BinCount, sensitivity,
                                      height)]
    /\ UNCHANGED <<audioVars, app>>

\* The buffers of a frame of particles: silence, the midpoint, full scale
\* and a ramp over the bins.
ParticleBuffers ==
    {[i \in 1..BinCount |-> v] : v \in SampleValues}
        \cup {[i \in 1..BinCount |-> i - 1]}

NextRender ==
    \/ \E mode \in RunModes, buf \in Buffers, s \in AppSensitivities,
          w \in Widths, h \in Heights :
           RenderFrame(mode, buf, buf, s, w, h)
    \/ \E f \in ParticleBuffers, t \in ParticleBuffers, s \in AppSensitivities,
          w \in Widths, h \in Heights :
           RenderParticles(f, t, s, w, h)

SpecRender == Init /\ [][NextRender]_vars

\* One frame of a video source is composited: the crop rectangle is computed
\* from the size of the decoded frame and the size of the surface.  Like
\* the drawing of the modes it keeps nothing between frames.
CompositeVideo(vW, vH, width, height) ==
    /\ frame = NoFrame
    /\ frame' = [mode |-> "video", pixels |-> <<vW, vH, width, height>>,
                 vW |-> Num(vW), vH |-> Num(vH),
                 width |-> Num(width), height |-> Num(height),
                 rect |-> crop(Num(vW), Num(vH), Num(width), Num(height))]
    /\ UNCHANGED <<audioVars, app>>

\* Frame and surface sizes in pixels as <<width, height>>: landscape, portrait
\* and square video, surfaces wider than, narrower than and of the same
\* aspect ratio as the frames.
VideoSizes == {<<640, 480>>, <<1280, 720>>, <<1920, 1080>>, <<480, 854>>,
               <<720, 1280>>, <<1080, 1080>>, <<11, 15>>, <<320, 240>>,
               <<854, 480>>, <<3840, 2160>>}
SurfaceSizes == {<<1280, 720>>, <<1920, 1080>>, <<800, 600>>, <<375, 667>>,
                 <<480, 854>>, <<240, 427>>, <<1366, 768>>, <<1024, 768>>,
                 <<300, 150>>, <<11, 15>>, <<500, 500>>, <<2560, 1440>>}

NextCrop ==
    \E v \in VideoSizes, c \in SurfaceSizes : CompositeVideo(v[1], v[2], c[1], c[2])

SpecCrop == Init /\ [][NextCrop]_vars

\* ------------------------------------------------------------ properties

\* Positions of the handler's log that name a platform call.
Calls(log, name) == {i \in DOMAIN log : log[i].op = name}
\* Taps constructed for a source.
TapsOf(src) == {t \in DOMAIN taps : taps[t].src = src}
\* Edges into analysers a consumer constructed.
EdgesOf(who) == {e \in edges : analysers[e[2]].owner = who}

\* C1: for a media element every call of getOrCreateSourceNode that
\* returns hands out the node the registry cache holds for the element, and
\* an element's entry in the cache, once made, is never replaced or removed;
\* so all calls for one element return the identical node.
C1Step ==
    /\ \A e \in Elements : sourceNodes[e] # 0 => sourceNodes'[e] = sourceNodes[e]
    /\ \A i \in Calls(ops', "getOrCreateSourceNode") :
          ops'[i].src \in Elements =>
              /\ ops'[i].a # 0
              /\ ops'[i].a = sourceNodes'[ops'[i].src]
C1_SameNodePerElement == [][C1Step]_vars

\* Both consumers are attached to one media element, each holding the node
\* its own call of getOrCreateSourceNode returned: the same node.
C1_Witness ==
    /\ connCleanup.has /\ monCleanup.has
    /\ connCleanup.sourceNode # 0
    /\ connCleanup.sourceNode = monCleanup.sourceNode
    /\ taps[connCleanup.sourceNode].src \in Elements

\* C2, as stated: createMediaElementSource is invoked at most once per media
\* element under every interleaving of the two consumers' mounts, source
\* changes, configuration changes and unmounts.
C2_InvokedAtMostOnce == \A e \in Elements : tapCalls[e] <= 1

\* C2, amended: at most one tap is ever constructed per media element, and
\* the constructor is never invoked for an element that has a tap (neither
\* consumer creates a second tap for an element the other has tapped); it
\* is invoked more than once only for an element tapped by code outside the
\* registry, where every invocation throws and nothing is cached.
C2_AtMostOneTapPerElement ==
    \A e \in Elements :
        /\ Cardinality(TapsOf(e)) <= 1
        /\ TapsOf(e) # {} => tapCalls[e] = 1 /\ sourceNodes[e] \in TapsOf(e)
        /\ tapCalls[e] > 1 => e \in foreign /\ TapsOf(e) = {} /\ sourceNodes[e] = 0

\* Both consumers' analysers are connected to the one tap of an element
\* after a single invocation of its constructor.
C2_Witness ==
    \E e \in Elements :
        /\ tapCalls[e] = 1
        /\ \E t \in TapsOf(e) :
              /\ \E m \in EdgesOf("main") : m[1] = t
              /\ \E n \in EdgesOf("mon") : n[1] = t

\* C3: for a capture stream every call of getOrCreateSourceNode returns a
\* node constructed by that call for that stream, hence distinct from every
\* node returned before, and leaves the registry cache as it was; no stream
\* is ever in the cache.
C3Step ==
    /\ \A s \in Streams : sourceNodes[s] = 0 /\ sourceNodes'[s] = 0
    /\ \A i \in Calls(ops', "getOrCreateSourceNode") :
          ops'[i].src \in Streams =>
              /\ ops'[i].a > Len(taps)
              /\ ops'[i].a \in DOMAIN taps'
              /\ taps'[ops'[i].a].src = ops'[i].src
              /\ sourceNodes' = sourceNodes
C3_FreshTapPerStreamCall == [][C3Step]_vars

\* Both consumers are attached to the same stream, through two nodes.
C3_Witness ==
    /\ connCleanup.has /\ monCleanup.has
    /\ connCleanup.sourceNode # 0 /\ monCleanup.sourceNode # 0
    /\ connCleanup.sourceNode # monCleanup.sourceNode
    /\ taps[connCleanup.sourceNode].src \in Streams
    /\ taps[monCleanup.sourceNode].src = taps[connCleanup.sourceNode].src

\* C4: every media-element tap in the registry cache is connected to the
\* audible output in every reachable state, and no handler (session setup,
\* source change, disposal, tick) ever takes a tap off the output.
C4Cached == \A e \in Elements : sourceNodes[e] # 0 => sourceNodes[e] \in dest
C4_CachedTapsAudible == [](C4Cached) /\ [][dest \subseteq dest']_vars

\* A disposal has just disconnected an analyser from a cached element tap,
\* which still feeds the output.
C4_Witness ==
    \E i \in Calls(ops, "disconnect") : \E e \in Elements :
        /\ sourceNodes[e] = ops[i].a
        /\ ops[i].a \in dest

\* C5: a disposal removes no edge but the one between its session's tap and
\* its session's own analyser; edges into other consumers' analysers and the
\* taps' connections to the output stay, and a handler that runs no disposal
\* removes no edge at all.
C5Step ==
    /\ \A e \in edges \ edges' :
          \E i \in Calls(ops', "cleanup") :
              /\ e = <<ops'[i].a, ops'[i].b>>
              /\ analysers[e[2]].owner = ops'[i].who
    /\ dest \subseteq dest'
C5_DisposalRemovesOwnEdgeOnly == [][C5Step]_vars

\* The main visualizer has just disconnected its analyser from an element
\* tap to which the monitor's analyser is still connected.
C5_Witness ==
    \E i \in Calls(ops, "disconnect") :
        /\ ops[i].who = "main"
        /\ taps[ops[i].a].src \in Elements
        /\ \E e \in EdgesOf("mon") : e[1] = ops[i].a

\* C6, as stated: a session that connected an analyser to a tap exposes a
\* disposal that disconnects it, on every path through session setup; so an
\* analyser is connected only while its consumer is mounted and holds the
\* disposal of the session that created it.
C6_ConnectedSessionsDisposable ==
    \A e \in edges :
        IF analysers[e[2]].owner = "main"
        THEN mounted /\ connCleanup.has /\ connCleanup.analyser = e[2]
        ELSE monMounted /\ monCleanup.has /\ monCleanup.analyser = e[2]

\* What a disposal may touch of the graph, the registry cache and the
\* scheduled ticks.
Disposable(w) == <<w.edges, w.dest, w.sourceNodes, w.rafQueue, w.taps, w.analysers>>

\* C7: in every reachable state, running a session's disposal and then
\* running it again raises no error either time, and the second run leaves
\* the tap-to-analyser edges, the tap-to-output edges, the registry cache
\* and the scheduled ticks exactly as the first run left them; for the
\* disposals of the visualizer's two effects and of the monitor's effect.
C7_DisposalIdempotent ==
    /\ connCleanup.has =>
          \A once \in {connectionCleanup(World, connCleanup)} :
              \A twice \in {connectionCleanup(once.w, connCleanup)} :
                  /\ ~once.threw /\ ~twice.threw
                  /\ Disposable(twice.w) = Disposable(once.w)
                  /\ twice.w.analyserRef = once.w.analyserRef
    /\ loopCleanup =>
          \A once \in {loopCleanupRun(World)} :
              \A twice \in {loopCleanupRun(once.w)} :
                  /\ ~once.threw /\ ~twice.threw
                  /\ Disposable(twice.w) = Disposable(once.w)
    /\ monCleanup.has =>
          \A once \in {monCleanupRun(World, monCleanup)} :
              \A twice \in {monCleanupRun(once.w, monCleanup)} :
                  /\ ~once.threw /\ ~twice.threw
                  /\ Disposable(twice.w) = Disposable(once.w)

\* Both consumers hold the disposal of a session whose analyser is
\* connected and whose next tick is scheduled, so that the first run of each
\* disposal disconnects and cancels and the second finds nothing to undo.
C7_Witness ==
    /\ connCleanup.has
    /\ <<connCleanup.sourceNode, connCleanup.analyser>> \in edges
    /\ loopCleanup
    /\ \E cb \in rafQueue : cb.id = animationFrameRef
    /\ monCleanup.has
    /\ <<monCleanup.sourceNode, monCleanup.analyser>> \in edges
    /\ \E cb \in rafQueue : cb.id = monAnimationFrameRef

\* C8, as stated: in every reachable state each consumer has at most one
\* analyser connected to any tap.
C8_OneAnalyserPerConsumer ==
    \A who \in {"main", "mon"} : Cardinality({e[2] : e \in EdgesOf(who)}) <= 1

\* C9: when the visualizer's source changes, the previous session's
\* disposal runs, and runs before anything of the new session is connected;
\* afterwards the previous analyser is connected to no tap, and a new live
\* session has an analyser and two sample buffers constructed in this very
\* handler, none of them the previous session's.
C9Step ==
    (mounted /\ mounted' /\ props'.source # props.source) =>
        /\ connCleanup.has =>
              /\ \E i \in Calls(ops', "cleanup") :
                    /\ ops'[i].who = "main"
                    /\ ops'[i].b = connCleanup.analyser
              /\ \A e \in edges' : e[2] # connCleanup.analyser
        /\ \A i \in DOMAIN ops' : \A j \in DOMAIN ops' :
              (/\ ops'[i].who = "main" /\ ops'[j].who = "main"
               /\ ops'[i].op \in {"cleanup", "disconnect", "disconnectThrows",
                                  "disconnectOutputs"}
               /\ ops'[j].op \in {"createAnalyser", "connect", "connectThrows",
                                  "newUint8Array"}) => i < j
        /\ analyserRef' # 0 =>
              /\ analyserRef' > Len(analysers)
              /\ timeDataRef' > Len(buffers)
              /\ freqDataRef' > Len(buffers)
              /\ timeDataRef' # freqDataRef'
              /\ EdgesOf("main")' = {<<connCleanup'.sourceNode, analyserRef'>>}
        /\ analyserRef' = 0 => EdgesOf("main")' = {}
C9_SourceChangeRebuilds == [][C9Step]_vars

\* A source change has just replaced a connected session by another: the
\* handler disconnected the old analyser and then connected a new one.
C9_Witness ==
    /\ mounted /\ analyserRef # 0
    /\ \E i \in Calls(ops, "disconnect") : \E j \in Calls(ops, "connect") :
          /\ ops[i].who = "main" /\ ops[j].who = "main"
          /\ i < j
          /\ ops[j].b = analyserRef
          /\ ops[i].b # analyserRef

\* C10: a change of sensitivity, mode or palette with the source unchanged
\* constructs no context, tap, analyser or buffer, connects and disconnects
\* nothing, and leaves the session's analyser, its sample buffers and its
\* disposal the same objects.
GraphCalls ==
    {"newAudioContext", "createAnalyser", "createMediaStreamSource",
     "createMediaElementSource", "getOrCreateSourceNode", "connectDestination",
     "connect", "connectThrows", "disconnect", "disconnectThrows",
     "disconnectOutputs", "newUint8Array", "cleanup"}
C10Step ==
    (mounted /\ mounted' /\ props'.source = props.source /\ props' # props) =>
        /\ UNCHANGED <<context, ctxState, taps, tapCalls, analysers, buffers,
                       edges, dest, sourceNodes>>
        /\ UNCHANGED <<analyserRef, timeDataRef, freqDataRef, connCleanup>>
        /\ \A i \in DOMAIN ops' : ops'[i].op \notin GraphCalls
C10_ConfigChangeKeepsGraph == [][C10Step]_vars

\* A configuration change has just restarted the loop of a connected
\* session: the pending tick was cancelled and a new one requested, and the
\* handler ran no disposal of the connection.
C10_Witness ==
    /\ mounted /\ analyserRef # 0
    /\ <<connCleanup.sourceNode, analyserRef>> \in edges
    /\ Calls(ops, "cleanup") = {}
    /\ \E i \in Calls(ops, "cancelAnimationFrame") :
          \E j \in Calls(ops, "requestAnimationFrame") :
              ops[i].who = "main" /\ ops[j].who = "main" /\ i < j

\* C11: the sample buffers of a session have half the length of its
\* analyser's transform size (256 for the visualizer's 512, 128 for the
\* monitor's 256); buffers are constructed only by the handler that sets the
\* session up, never by a tick or a configuration change, and no buffer's
\* length ever changes; every sample pull of the visualizer writes the
\* session's analyser data into the session's buffers, which stay the same
\* objects while the session's analyser stays, and every sample pull of the
\* monitor writes into the buffer its loop was started with.
C11Step ==
    /\ \A b \in DOMAIN buffers : buffers'[b] = buffers[b]
    /\ \A i \in Calls(ops', "newUint8Array") :
          \E j \in Calls(ops', "createAnalyser") : j < i /\ ops'[j].who = ops'[i].who
    /\ analyserRef' # 0 =>
          /\ analysers'[analyserRef'].fftSize = 512
          /\ buffers'[timeDataRef'] = 256 /\ buffers'[freqDataRef'] = 256
    /\ (analyserRef # 0 /\ analyserRef' = analyserRef) =>
          timeDataRef' = timeDataRef /\ freqDataRef' = freqDataRef
    /\ \A i \in Calls(ops', "getByteTimeDomainData") :
          IF ops'[i].who = "main"
          THEN ops'[i].a = analyserRef' /\ ops'[i].b = timeDataRef'
          ELSE /\ analysers'[ops'[i].a].fftSize = 256
               /\ buffers'[ops'[i].b] = 128
               /\ \/ ops'[i].a > Len(analysers) /\ ops'[i].b > Len(buffers)
                  \/ \E cb \in rafQueue : /\ cb.who = "mon"
                                          /\ cb.closure.analyser = ops'[i].a
                                          /\ cb.closure.dataArray = ops'[i].b
    /\ \A i \in Calls(ops', "getByteFrequencyData") :
          ops'[i].a = analyserRef' /\ ops'[i].b = freqDataRef'
    /\ \A cb \in rafQueue' :
          cb.who = "mon" =>
              \/ cb.closure.analyser > Len(analysers) /\ cb.closure.dataArray > Len(buffers)
              \/ \E old \in rafQueue : old.who = "mon" /\ old.closure = cb.closure
C11_BuffersHalfSizeAndKept == [][C11Step]_vars

\* A tick of the visualizer after a configuration change and a tick of the
\* monitor have pulled samples into the buffers their sessions were set up
\* with.
C11_Witness ==
    /\ analyserRef # 0
    /\ props # NoProps
    /\ \E i \in Calls(ops, "fire") :
          /\ ops[i].who = "main"
          /\ \E j \in Calls(ops, "getByteFrequencyData") :
                i < j /\ ops[j].b = freqDataRef /\ buffers[ops[j].b] = 256
    /\ \E cb \in rafQueue : cb.who = "mon" /\ buffers[cb.closure.dataArray] = 128

\* C12: a call of getContext that returns hands out the context the
\* registry holds after the call; it is the context held before when that
\* one exists and is not closed, and then nothing is constructed; otherwise
\* exactly one context is constructed and it is the one held and returned.
\* Only getContext changes the context held, and every context the registry
\* does not hold is a closed one it has replaced.
C12Step ==
    /\ \A i \in Calls(ops', "getContext") :
          /\ ops'[i].a = context' /\ context' # 0
          /\ ctxState'[context'] # "closed"
          /\ IF context # 0 /\ ctxState[context] # "closed"
             THEN context' = context /\ Len(ctxState') = Len(ctxState)
             ELSE context' = Len(ctxState) + 1 /\ Len(ctxState') = Len(ctxState) + 1
    /\ Calls(ops', "getContext") = {} => context' = context /\ Len(ctxState') = Len(ctxState)
    /\ \A c \in DOMAIN ctxState' : c # context' => ctxState'[c] = "closed"
C12_OneLazyContext == [][C12Step]_vars

\* The registry holds the replacement of a closed context, and a call has
\* just returned that replacement without constructing anything.
C12_Witness ==
    /\ context = 2 /\ ctxState[1] = "closed" /\ ctxState[2] # "closed"
    /\ \E i \in Calls(ops, "getContext") : ops[i].a = 2
    /\ Calls(ops, "newAudioContext") = {}

\* C13: when the construction of the context throws, the engine goes no
\* further in that call (getContext returns nothing and neither does a
\* getOrCreateSourceNode that called it), the registry is left as it was,
\* holding no context or the closed one, and every call of getContext made
\* while the registry holds no open context attempts a construction.
C13Step ==
    /\ \A i \in Calls(ops', "newAudioContextThrows") :
          /\ \A j \in DOMAIN ops' : j > i => ops'[j].who # "engine"
          /\ context' = context /\ ctxState' = ctxState /\ sourceNodes' = sourceNodes
          /\ context' = 0 \/ ctxState'[context'] = "closed"
    /\ (context = 0 \/ ctxState[context] = "closed") =>
          \A i \in Calls(ops', "getContext") :
              \E j \in Calls(ops', "newAudioContext") : j < i
C13_ConstructionFailurePropagates == [][C13Step]_vars

\* A call of getContext has just failed to construct the replacement of a
\* closed context.
C13_Witness ==
    /\ Calls(ops, "newAudioContextThrows") # {}
    /\ Calls(ops, "getContext") = {}
    /\ context # 0 /\ ctxState[context] = "closed"

\* What a tick reads and paints.
SamplePulls == {"getByteTimeDomainData", "getByteFrequencyData"}
DrawCalls == {"fillRect", "drawImage", "clearRect", "stroke"} \cup Modes
\* The handler set up a session for the consumer and the construction of
\* the media-element tap threw.
TapThrew(who) ==
    \E i \in Calls(ops, "createAnalyser") :
        /\ ops[i].who = who
        /\ \E j \in Calls(ops, "createMediaElementSource") : i < j /\ ops[j].a = 0

\* C14, as stated: no error raised while a session is set up (by the
\* construction of the context, the creation of the tap or the connection of
\* the tap to the analyser) leaves the setup uncaught, and a setup of the
\* visualizer that did not get its analyser connected has put the visualizer
\* in its fault state.
C14_ConstructionErrorsCaught ==
    /\ Calls(ops, "uncaught") = {}
    /\ \A i \in Calls(ops, "newAudioContextThrows") \cup Calls(ops, "connectThrows")
                \cup {j \in Calls(ops, "createMediaElementSource") : ops[j].a = 0} :
          (\E k \in DOMAIN ops : ops[k].who = "main") => mounted /\ hasError

\* C15: when the creation of the tap throws while the visualizer sets up a
\* session, the visualizer is in its fault state; and in the fault state its
\* analyser is connected to no tap, it holds no analyser, no tick of it is
\* pending, its handlers pull no samples and issue no draw call, and the
\* disposal it holds runs without error and changes nothing of the graph.
C15_FaultDegrades ==
    /\ (mounted /\ TapThrew("main")) => hasError
    /\ (mounted /\ hasError) =>
          /\ EdgesOf("main") = {}
          /\ analyserRef = 0
          /\ \A cb \in rafQueue : cb.who # "main"
          /\ \A i \in DOMAIN ops :
                ops[i].who = "main" => ops[i].op \notin SamplePulls \cup DrawCalls
          /\ connCleanup.has =>
                \A r \in {connectionCleanup(World, connCleanup)} :
                    ~r.threw /\ Disposable(r.w) = Disposable(World)

\* The visualizer is in its fault state right after the creation of the tap
\* threw, holding the disposal of the failed session.
C15_Witness ==
    /\ mounted /\ hasError /\ connCleanup.has
    /\ TapThrew("main")

\* C16: a tick is pending for the visualizer only while it is mounted with
\* its canvas rendered and holds an analyser that is connected to its
\* session's tap, and for the monitor only while it is mounted and the
\* analyser the tick reads is the connected analyser of its current session.
C16_TickOnlyWhileLive ==
    \A cb \in rafQueue :
        IF cb.who = "main"
        THEN /\ mounted /\ ~hasError
             /\ analyserRef # 0 /\ timeDataRef # 0 /\ freqDataRef # 0
             /\ connCleanup.has /\ connCleanup.analyser = analyserRef
             /\ <<connCleanup.sourceNode, analyserRef>> \in edges
        ELSE /\ monMounted
             /\ monCleanup.has /\ monCleanup.analyser = cb.closure.analyser
             /\ <<monCleanup.sourceNode, cb.closure.analyser>> \in edges

\* The visualizer's loop runs on a live session, while the monitor, set up
\* when its canvas gave no 2D context, has its analyser connected and no
\* tick pending.
C16_Witness ==
    /\ \E cb \in rafQueue : cb.who = "main"
    /\ monMounted /\ EdgesOf("mon") # {}
    /\ \A cb \in rafQueue : cb.who # "mon"

\* C17: a handler that disposes a session (unmount or source change)
\* cancels every tick pending for that consumer, leaves the disposed
\* analyser connected to nothing, pulls no samples from it after the
\* disposal and leaves no pending tick that would read it; and in every
\* handler, ticks included, samples are pulled only from an analyser that is
\* connected, so never from one a disposal has disconnected.
C17Step ==
    /\ \A i \in Calls(ops', "cleanup") :
          /\ \A cb \in rafQueue :
                cb.who = ops'[i].who =>
                    [who |-> cb.who, closure |-> cb.closure] \in cancelled'
          /\ \A e \in edges' : e[2] # ops'[i].b
          /\ \A j \in DOMAIN ops' :
                (j > i /\ ops'[j].op \in SamplePulls) => ops'[j].a # ops'[i].b
          /\ \A cb \in rafQueue' :
                IF cb.who = "mon"
                THEN cb.closure.analyser # ops'[i].b
                ELSE analyserRef' # 0 /\ analyserRef' # ops'[i].b
    /\ \A j \in DOMAIN ops' :
          ops'[j].op \in SamplePulls => \E e \in edges' : e[2] = ops'[j].a
C17_NoTickAfterDisposal == [][C17Step]_vars

\* A source change of the visualizer has just disposed a session whose tick
\* was pending and started the loop of the next session.
C17_Witness ==
    /\ \E i \in Calls(ops, "cleanup") : ops[i].who = "main"
    /\ \E c \in cancelled : c.who = "main" /\ c.closure.source # props.source
    /\ \E cb \in rafQueue : cb.who = "main"

\* C18, as stated: a cancelled tick that fires once more after its loop was
\* stopped requests no further tick and pulls no samples into the buffers
\* of a disposed session, so that no consumer ever has a second loop
\* pending beside its current one.
C18_StaleTickHarmless ==
    /\ \A i \in Calls(ops, "staleFire") :
          \A j \in DOMAIN ops :
              j > i =>
                  /\ ops[j].op # "requestAnimationFrame"
                  /\ ops[j].op \in SamplePulls => \E e \in edges : e[2] = ops[j].a
    /\ \A who \in {"main", "mon"} : Cardinality({cb \in rafQueue : cb.who = who}) <= 1

\* C19, as stated: a session that is cancelled before its first scheduled
\* tick fires has issued no draw call.  The handler before the cancelling
\* one started the consumer's loop, so the tick cancelled is the first one
\* scheduled; that handler issued no draw call for the consumer.
C19Step ==
    \A i \in Calls(ops, "loopStart") :
        (\E c \in cancelled' : c.who = ops[i].who) =>
            \A j \in DOMAIN ops :
                (j > i /\ ops[j].who = ops[i].who) => ops[j].op \notin DrawCalls
C19_NoDrawBeforeFirstTick == [][C19Step]_vars

\* C20: each consumer has at most one tick pending; the platform runs one
\* callback per handler and only one that was pending; a handler requests
\* at most one tick per consumer, and only after the start of that consumer's
\* loop or the firing of its tick in the same handler; and a handler that
\* starts a consumer's loop has first cancelled the tick that was pending
\* for that consumer.
C20Step ==
    /\ \A who \in {"main", "mon"} :
          /\ Cardinality({cb \in rafQueue' : cb.who = who}) <= 1
          /\ Cardinality({j \in Calls(ops', "requestAnimationFrame") :
                             ops'[j].who = who}) <= 1
    /\ Cardinality(Calls(ops', "fire")) <= 1
    /\ \A i \in Calls(ops', "fire") :
          i = 1 /\ \E cb \in rafQueue : cb.id = ops'[i].a /\ cb.who = ops'[i].who
    /\ \A j \in Calls(ops', "requestAnimationFrame") :
          \E i \in Calls(ops', "fire") \cup Calls(ops', "loopStart") :
              i < j /\ ops'[i].who = ops'[j].who
    /\ \A j \in Calls(ops', "loopStart") :
          \A cb \in rafQueue :
              cb.who = ops'[j].who =>
                  \E i \in Calls(ops', "cancelAnimationFrame") :
                      i < j /\ ops'[i].who = cb.who /\ ops'[i].a = cb.id
C20_OneTickPending == [][C20Step]_vars

\* A tick of the monitor has just run and requested the next one while a
\* tick of the visualizer is pending: one pending tick each.
C20_Witness ==
    /\ \E i \in Calls(ops, "fire") :
          /\ ops[i].who = "mon"
          /\ \E j \in Calls(ops, "requestAnimationFrame") : i < j
    /\ \E cb \in rafQueue : cb.who = "main"
    /\ \E cb \in rafQueue : cb.who = "mon"
    /\ Cardinality(rafQueue) = 2

\* The ticks of the visualizer the last handler ran past draw's guard: the
\* firing of a callback followed by the request of the next one.
LiveTicks(log) ==
    {i \in Calls(log, "fire") :
        /\ log[i].who = "main"
        /\ \E j \in Calls(log, "requestAnimationFrame") : j > i /\ log[j].who = "main"}

\* C21, as stated: no error leaves a tick of the visualizer; a tick in which
\* a sample pull or a draw operation throws handles the error itself and
\* has the next tick scheduled.
C21_TickErrorsContained ==
    \A i \in Calls(ops, "fire") :
        ops[i].who = "main" =>
            /\ \A j \in Calls(ops, "uncaught") : j < i
            /\ (\E j \in DOMAIN ops :
                    ops[j].op \in {"getByteTimeDomainDataThrows", "fillRectThrows"}) =>
                   \E cb \in rafQueue : cb.who = "main"

\* C22: a tick of the visualizer that runs past its guard requests the
\* resumption of the context exactly when the context was suspended at the
\* start of the tick; with the context running it makes no request.
C22Step ==
    \A i \in LiveTicks(ops') :
        /\ context # 0
        /\ ctxState[context] = "suspended" =>
              \E j \in Calls(ops', "resume") : j > i /\ ops'[j].a = context
        /\ ctxState[context] = "running" => Calls(ops', "resume") = {}
C22_ResumeWhileSuspended == [][C22Step]_vars

\* A tick found the context suspended and requested its resumption; the
\* request has not settled and the next tick is pending.
C22_Witness ==
    /\ LiveTicks(ops) # {}
    /\ Calls(ops, "resume") # {}
    /\ resumePending
    /\ ctxState[context] = "suspended"
    /\ \E cb \in rafQueue : cb.who = "main"

\* C23: a tick that requests the resumption pulls both snapshots, paints and
\* has the next tick pending in the same handler, whatever becomes of the
\* request; and the rejection of a resumption changes nothing but the
\* pending request itself: the fault state, the pending ticks and the
\* session are as before.
C23Step ==
    /\ \A i \in LiveTicks(ops') :
          \A r \in Calls(ops', "resume") :
              (r > i /\ Calls(ops', "uncaught") = {}) =>
                  /\ \E j \in Calls(ops', "getByteTimeDomainData") : j > r
                  /\ \E j \in Calls(ops', "getByteFrequencyData") : j > r
                  /\ \E j \in Calls(ops', "fillRect") : j > r
                  /\ \E cb \in rafQueue' : cb.who = "main"
                  /\ hasError' = hasError
    /\ \A i \in Calls(ops', "resumeSettles") :
          ops'[i].b = 0 =>
              /\ hasError' = hasError
              /\ rafQueue' = rafQueue
              /\ mounted' = mounted
              /\ analyserRef' = analyserRef
              /\ ctxState' = ctxState
              /\ ~resumePending'
C23_ResumeFireAndForget == [][C23Step]_vars

\* A resumption was rejected while the loop runs: the context is still
\* suspended, the session is in no fault state and its tick is pending.
C23_Witness ==
    /\ \E i \in Calls(ops, "resumeSettles") : ops[i].b = 0
    /\ mounted /\ ~hasError /\ analyserRef # 0
    /\ ctxState[context] = "suspended"
    /\ \E cb \in rafQueue : cb.who = "main"

\* The calls a handler made after position i of its log, by name.
NamesAfter(log, i) == [k \in 1..(Len(log) - i) |-> log[i + k].op]

\* The orders of the steps of one draw after the request of the next frame:
\* the resumption if the context is suspended, the two pulls, the resize,
\* and on a surface with a layout box the wash, the video frame with its
\* overlay if there is one, and the mode's drawing.
TickOrders ==
    {r \o <<"getByteTimeDomainData", "getByteFrequencyData", "resize">> \o p :
        r \in {<<>>, <<"resume">>},
        p \in {<<>>} \cup
              {<<"fillRect">> \o v \o <<m>> :
                  v \in {<<>>, <<"drawImage", "fillRect">>}, m \in Modes}}

RECURSIVE Split(_)
Split(str) ==
    IF \A i \in DOMAIN str : str[i] # ":"
    THEN <<str>>
    ELSE Pick({<<SubSeq(str, 1, c - 1)>> \o Split(SubSeq(str, c + 1, Len(str))) :
               c \in {CHOOSE i \in DOMAIN str :
                          str[i] = ":" /\ \A j \in 1..(i - 1) : str[j] # ":"}})
AllDigits(str) == str # <<>> /\ \A i \in DOMAIN str : IsDigit(str[i])

\* C24, as stated: a frame of the waveform drawn from samples that are all
\* 128 has every vertex at y = H/2, whatever the sensitivity and the height.
C24_FlatAtMidpoint ==
    (/\ frame.mode = "waveform"
     /\ \A i \in DOMAIN frame.timeData : frame.timeData[i] = 128) =>
        \A i \in DOMAIN frame.shapes :
            frame.shapes[i].y = Div(frame.height, Fin(2, 1))

\* C25, as stated: a frame of the bars drawn from samples that are all 0
\* has every bar of height 0, and one drawn from samples that are all 255
\* has every bar of height 0.8*s*H, whatever the sensitivity s and the
\* height H.
C25_BarsExtremes ==
    frame.mode = "bars" =>
        /\ (\A i \in DOMAIN frame.freqData : frame.freqData[i] = 0) =>
               \A i \in DOMAIN frame.shapes : frame.shapes[i].h = Fin(0, 1)
        /\ (\A i \in DOMAIN frame.freqData : frame.freqData[i] = 255) =>
               \A i \in DOMAIN frame.shapes :
                   frame.shapes[i].h =
                       Mul(Mul(Fin(8, 10), frame.sensitivity), frame.height)

\* The fields of the time on display and the whole seconds it was
\* formatted from.
C26Fields == Split(app.displayTime)
C26Seconds == Floor(app.lastTime)

\* C26: the time on display is formatTime of the time last given.  For NaN
\* and the infinities it is "00:00".  For a finite time of s >= 0 whole
\* seconds it has the fields MM:SS below one hour and HH:MM:SS from one hour
\* on, every field made of digits, minutes and seconds of two digits and at
\* most 59, hours padded with zeros to two digits and no further, and the
\* fields' values add up to s; so 0 shows as 00:00, 65 as 01:05 and 3661
\* as 01:01:01.
C26_FormatTime ==
    IF ~isFinite(app.lastTime)
    THEN app.displayTime = <<"0", "0", ":", "0", "0">>
    ELSE /\ Len(C26Fields) = IF C26Seconds < 3600 THEN 2 ELSE 3
         /\ \A f \in DOMAIN C26Fields : AllDigits(C26Fields[f])
         /\ \A f \in DOMAIN C26Fields :
               IF Len(C26Fields) - f < 2
               THEN Len(C26Fields[f]) = 2 /\ DigitsValue(C26Fields[f]) <= 59
               ELSE /\ Len(C26Fields[f]) >= 2
                    /\ Len(C26Fields[f]) > 2 => C26Fields[f][1] # "0"
         /\ C26Seconds =
               DigitsValue(C26Fields[Len(C26Fields)])
                 + 60 * DigitsValue(C26Fields[Len(C26Fields) - 1])
                 + (IF Len(C26Fields) = 3 THEN 3600 * DigitsValue(C26Fields[1]) ELSE 0)
         /\ app.lastTime = Fin(0, 1) => app.displayTime = <<"0", "0", ":", "0", "0">>
         /\ app.lastTime = Fin(65, 1) => app.displayTime = <<"0", "1", ":", "0", "5">>
         /\ app.lastTime = Fin(3661, 1) =>
               app.displayTime = <<"0", "1", ":", "0", "1", ":", "0", "1">>

\* An active app shows a time beyond one hour, formatted from 3661 seconds.
C26_Witness ==
    /\ app.isActive
    /\ app.lastTime = Fin(3661, 1)
    /\ app.displayTime = <<"0", "1", ":", "0", "1", ":", "0", "1">>

\* C27, as stated: an app loaded with the parameter url has begun loading
\* the stream, or is active, before the user has done anything.
C27_UrlAutoStarts ==
    (app.loaded /\ app.search.url # <<>> /\ ~app.userActed) =>
        (app.isLoading \/ app.isActive)

\* C28, as stated: an app loaded with mic=true has the microphone as its
\* source type and has requested capture before the user has done anything.
C28_MicAutoStarts ==
    (app.loaded /\ app.search.mic = "true" /\ ~app.userActed) =>
        (app.sourceType = "mic" /\ app.captureRequested)

\* C29, as stated: the sensitivity App hands to the render loop is a finite
\* gain between 0.1 and 5.0 in every state.
C29_SensitivityInRange ==
    /\ isFinite(app.sensitivity)
    /\ ~Less(app.sensitivity, Fin(1, 10))
    /\ ~Greater(app.sensitivity, Fin(5, 1))

\* C31: a run of draw whose resize leaves the surface with width 0 or
\* height 0 issues no draw call (no wash, no video frame, no mode drawing),
\* has pulled both snapshots before the resize and has requested the next
\* tick, which is pending when the handler ends with the visualizer's
\* session still live; a run whose resize finds a layout box paints.
C31_ZeroSizeSkipsDraw ==
    \A r \in Calls(ops, "resize") :
        IF ops[r].a = 0
        THEN /\ \A k \in DOMAIN ops : ops[k].op \notin DrawCalls
             /\ \E j \in Calls(ops, "getByteTimeDomainData") : j < r
             /\ \E j \in Calls(ops, "getByteFrequencyData") : j < r
             /\ \E j \in Calls(ops, "requestAnimationFrame") :
                   j < r /\ \E cb \in rafQueue : cb.id = ops[j].a /\ cb.who = "main"
             /\ mounted /\ ~hasError /\ analyserRef # 0
        ELSE \E k \in Calls(ops, "fillRect") : k > r

\* A tick of a video source with a decoded frame has just run on a canvas
\* without a layout box: the next tick is pending.
C31_Witness ==
    /\ LiveTicks(ops) # {}
    /\ \E r \in Calls(ops, "resize") : ops[r].a = 0
    /\ props.source \in VideoElements
    /\ \E cb \in rafQueue : cb.who = "main"

\* The aspect ratios draw compares when it composites the frame.
VAspect == FDiv(frame.vW, frame.vH)
CAspect == FDiv(frame.width, frame.height)

\* C32, as stated: when the aspect ratio of the frame is greater than that
\* of the surface the crop rectangle is lower than the frame (the height of
\* the source is cropped), and when it is smaller the crop rectangle is
\* narrower than the frame (the width of the source is cropped).
C32_CropsHeightWhenWider ==
    frame.mode = "video" =>
        /\ Lt(CAspect, VAspect) => Lt(frame.rect.sH, frame.vH)
        /\ Lt(VAspect, CAspect) => Lt(frame.rect.sW, frame.vW)

\* C32, amended: when the aspect ratio of the frame is greater than that of
\* the surface the crop rectangle has the whole height of the frame and is
\* narrower than the frame (the width is cropped, from both sides);
\* otherwise it has the whole width of the frame, and when the aspect ratio
\* of the frame is smaller it is lower than the frame (the height is
\* cropped, from top and bottom).
C32_CropRule ==
    frame.mode = "video" =>
        /\ Lt(CAspect, VAspect) =>
              /\ Eq(frame.rect.sH, frame.vH) /\ Eq(frame.rect.sy, Num(0))
              /\ Lt(frame.rect.sW, frame.vW) /\ Lt(Num(0), frame.rect.sx)
        /\ ~Lt(CAspect, VAspect) =>
              /\ Eq(frame.rect.sW, frame.vW) /\ Eq(frame.rect.sx, Num(0))
        /\ Lt(VAspect, CAspect) =>
              /\ Lt(frame.rect.sH, frame.vH) /\ Lt(Num(0), frame.rect.sy)

\* A landscape frame was composited onto a portrait surface: its width is
\* cropped.
C32_Witness ==
    /\ frame.mode = "video"
    /\ Lt(Num(1), VAspect) /\ Lt(CAspect, Num(1))
    /\ Lt(frame.rect.sW, frame.vW)

\* C33, as stated: the crop rectangle lies inside the frame, is centred
\* along both axes (so along the cropped one) and has the aspect ratio of
\* the surface, sW*H = sH*W.
C33_CropInsideFrame ==
    frame.mode = "video" =>
        /\ Le(Num(0), frame.rect.sx) /\ Le(Num(0), frame.rect.sy)
        /\ Le(ExactAdd(frame.rect.sx, frame.rect.sW), frame.vW)
        /\ Le(ExactAdd(frame.rect.sy, frame.rect.sH), frame.vH)
        /\ Eq(ExactAdd(ExactAdd(frame.rect.sx, frame.rect.sx), frame.rect.sW), frame.vW)
        /\ Eq(ExactAdd(ExactAdd(frame.rect.sy, frame.rect.sy), frame.rect.sH), frame.vH)
        /\ Eq(ExactMul(frame.rect.sW, frame.height), ExactMul(frame.rect.sH, frame.width))

\* C34, as stated: in a frame of particles drawn from buffers of 256 bins
\* there are 48 particles, particle i samples bin i*floor(256/48), every
\* bin sampled lies in the buffers, and every particle's radius is a number
\* that is at least 2.
C34_ParticlesInRange ==
    frame.mode = "particles" =>
        /\ Len(frame.freqData) = 256 /\ Len(frame.timeData) = 256
        /\ Len(frame.shapes) = 48
        /\ \A p \in DOMAIN frame.shapes :
              /\ frame.shapes[p].index = (p - 1) * (256 \div 48)
              /\ frame.shapes[p].index >= 0
              /\ frame.shapes[p].index < Len(frame.freqData)
              /\ ~isNaN(frame.shapes[p].dist)
              /\ ~isNaN(frame.shapes[p].radius)
              /\ ~Less(frame.shapes[p].radius, Fin(2, 1))

\* C35, as stated: every node a call of getOrCreateSourceNode returns
\* belongs to the context the registry holds after the call, the one
\* getContext returns, so that the node can be connected to an analyser of
\* that context.
C35_TapOfCurrentContext ==
    \A i \in Calls(ops, "getOrCreateSourceNode") :
        /\ context # 0
        /\ taps[ops[i].a].ctx = context

\* The visualizer holds a live session: it is mounted and in no fault state
\* and the analyser it holds is connected to the tap of its session.
LiveSession ==
    /\ mounted /\ ~hasError
    /\ analyserRef # 0 /\ connCleanup.has
    /\ <<connCleanup.sourceNode, analyserRef>> \in edges

\* C36, as stated: a visualizer that holds a live session has its loop
\* Running, a tick of it pending, when the handler that set the session up
\* ends, also when that handler is a source change out of the fault state.
\* (The loop is started by an effect run in that handler or not at all: no
\* step of the platform starts it, and a tick runs only if one is pending.)
C36_LiveLoopRuns ==
    LiveSession => \E cb \in rafQueue : cb.who = "main"

\* The construction of a tap of media element e threw in this step.
ConstructionThrew(e) ==
    /\ tapCalls'[e] = tapCalls[e] + 1
    /\ taps' = taps

\* C37: when the construction of a tap of a media element throws, sourceNodes
\* is left as it was, with no entry for the element, and an acquisition for
\* the element after it attempts the construction again: it throws again
\* or returns the node it constructed, never a node from the cache.
C37_ThrowLeavesCache ==
    [][\A e \in Elements :
         ConstructionThrew(e) =>
             /\ sourceNodes' = sourceNodes
             /\ sourceNodes'[e] = 0
             /\ \A env \in EngineEnv :
                  \A r \in {getOrCreateSourceNode(World', e, env)} :
                      /\ r.w.tapCalls[e] = tapCalls'[e] + 1
                      /\ ~r.threw => r.ret = Len(taps') + 1]_vars

\* A construction for an element has thrown in the step before, in an
\* acquisition that came after an earlier failed one, and the element has
\* no entry in sourceNodes.
C37_Witness ==
    \E e \in Elements :
        /\ \E i \in Calls(ops, "createMediaElementSource") :
               ops[i].src = e /\ ops[i].a = 0
        /\ tapCalls[e] >= 2
        /\ ~\E t \in DOMAIN taps : taps[t].src = e
        /\ sourceNodes[e] = 0

\* The configuration the URL names: the stream URL where the source is a
\* stream URL, the mode, the palette and the sensitivity.
Config(a) ==
    [url |-> IF a.sourceType = "url" THEN a.streamUrl ELSE <<>>,
     mode |-> a.mode, palette |-> a.palette, sensitivity |-> a.sensitivity]

\* C38: the page opened at the URL the synchronisation wrote for the present
\* configuration has, once the effects of its first render have run, the
\* same url, mode, palette and sensitivity, and shows the same URL.
C38_UrlRoundTrip ==
    app.loaded =>
        \A r \in {pageLoad(app.location)} :
            /\ Config(r) = Config(app)
            /\ r.location = app.location

\* A page just opened at the URL the synchronisation wrote for a stream URL
\* with separators in it, a mode, a palette and a sensitivity that are not
\* the defaults; the sensitivity is one written with an exponent.
C38_Witness ==
    /\ app.loaded /\ ~app.userActed
    /\ app.search = SearchOf(app.location)
    /\ app.sourceType = "url"
    /\ app.streamUrl = <<"a", "&", "b", "=", "c">>
    /\ app.mode = "radial" /\ app.palette = "cyan"
    /\ app.sensitivity = Fin(1, 10000000)
    /\ app.search.sensitivity = <<"1", "e", "-", "7">>

====
